---------------------------- MODULE Spec2Model ----------------------------
(***************************************************************************)
(* A model of src/api/line-webhook.js: the LINE webhook that turns a chat  *)
(* message into an inventory request and answers it.                       *)
(*                                                                         *)
(* A JavaScript string is modelled as the sequence of its UTF-16 code      *)
(* units, so that normalisation, case conversion and the regular           *)
(* expressions act on the characters exactly as the code does.             *)
(***************************************************************************)
EXTENDS Integers, Sequences, FiniteSets, TLC

VARIABLES
    pc,        \* position of the computation under study
    input,     \* argument of parseInventoryRequest
    result,    \* value returned by parseInventoryRequest
    catArgs,   \* arguments of detectCategory
    cat,       \* value returned by detectCategory
    env,       \* process.env as read by the module and the handler
    req,       \* the HTTP request of each invocation: method and body
    idx,       \* number of events of body.events its for loop has finished
    calls,     \* the fetch calls to the reply API issued so far
    sent,      \* the HTTP statuses each invocation has written to res
    running    \* the invocation the event loop is executing, 0 when idle

vars == <<pc, input, result, catArgs, cat, env, req, idx, calls, sent, running>>

(***************************************************************************)
(* Bounds of the model.                                                    *)
(***************************************************************************)
MaxPieces == 4
MaxCodeLen == 3
MaxEvents == 2

(***************************************************************************)
(* Characters.                                                             *)
(***************************************************************************)
\* \d of a JavaScript regular expression: 0-9
IsDigit(c) == c \in 48..57

\* [A-Z0-9] under the i flag: 0-9, A-Z, a-z
IsAlnum(c) == IsDigit(c) \/ c \in 65..90 \/ c \in 97..122

\* \s of a JavaScript regular expression, which is also what trim() removes
IsSpace(c) ==
    c \in {9, 10, 11, 12, 13, 32, 160, 5760, 8232, 8233, 8239, 8287, 12288, 65279}
    \/ c \in 8192..8202

Max(S) == CHOOSE x \in S : \A y \in S : x >= y

Min(S) == CHOOSE x \in S : \A y \in S : x <= y

\* String.prototype.includes
Includes(t, w) ==
    \E s \in 1..(Len(t) - Len(w) + 1) : SubSeq(t, s, s + Len(w) - 1) = w

\* String.prototype.startsWith
StartsWith(t, w) ==
    Len(w) <= Len(t) /\ SubSeq(t, 1, Len(w)) = w

(***************************************************************************)
(* String.prototype.toLowerCase and toUpperCase.  The string is read as    *)
(* code points (a surrogate pair is one character), each character is      *)
(* replaced by its lower or upper case, and the result is written back as  *)
(* code units.  The mappings do not depend on the locale.                  *)
(***************************************************************************)
\* String.prototype.toLowerCase beyond Basic Latin, as ranges
\* <<lo, hi, delta, step>>: each of the code points lo, lo + step, ..., hi
\* becomes itself plus delta (Unicode 17 case mappings)
LowerRanges ==
    {
      <<192, 214, 32, 1>>, <<216, 222, 32, 1>>, <<256, 302, 1, 2>>,
      <<306, 310, 1, 2>>, <<313, 327, 1, 2>>, <<330, 374, 1, 2>>,
      <<376, 376, -121, 1>>, <<377, 381, 1, 2>>, <<385, 385, 210, 1>>,
      <<386, 388, 1, 2>>, <<390, 390, 206, 1>>, <<391, 391, 1, 1>>,
      <<393, 394, 205, 1>>, <<395, 395, 1, 1>>, <<398, 398, 79, 1>>,
      <<399, 399, 202, 1>>, <<400, 400, 203, 1>>, <<401, 401, 1, 1>>,
      <<403, 403, 205, 1>>, <<404, 404, 207, 1>>, <<406, 406, 211, 1>>,
      <<407, 407, 209, 1>>, <<408, 408, 1, 1>>, <<412, 412, 211, 1>>,
      <<413, 413, 213, 1>>, <<415, 415, 214, 1>>, <<416, 420, 1, 2>>,
      <<422, 422, 218, 1>>, <<423, 423, 1, 1>>, <<425, 425, 218, 1>>,
      <<428, 428, 1, 1>>, <<430, 430, 218, 1>>, <<431, 431, 1, 1>>,
      <<433, 434, 217, 1>>, <<435, 437, 1, 2>>, <<439, 439, 219, 1>>,
      <<440, 440, 1, 1>>, <<444, 444, 1, 1>>, <<452, 452, 2, 1>>,
      <<453, 453, 1, 1>>, <<455, 455, 2, 1>>, <<456, 456, 1, 1>>,
      <<458, 458, 2, 1>>, <<459, 475, 1, 2>>, <<478, 494, 1, 2>>,
      <<497, 497, 2, 1>>, <<498, 500, 1, 2>>, <<502, 502, -97, 1>>,
      <<503, 503, -56, 1>>, <<504, 542, 1, 2>>, <<544, 544, -130, 1>>,
      <<546, 562, 1, 2>>, <<570, 570, 10795, 1>>, <<571, 571, 1, 1>>,
      <<573, 573, -163, 1>>, <<574, 574, 10792, 1>>, <<577, 577, 1, 1>>,
      <<579, 579, -195, 1>>, <<580, 580, 69, 1>>, <<581, 581, 71, 1>>,
      <<582, 590, 1, 2>>, <<880, 882, 1, 2>>, <<886, 886, 1, 1>>,
      <<895, 895, 116, 1>>, <<902, 902, 38, 1>>, <<904, 906, 37, 1>>,
      <<908, 908, 64, 1>>, <<910, 911, 63, 1>>, <<913, 929, 32, 1>>,
      <<931, 939, 32, 1>>, <<975, 975, 8, 1>>, <<984, 1006, 1, 2>>,
      <<1012, 1012, -60, 1>>, <<1015, 1015, 1, 1>>, <<1017, 1017, -7, 1>>,
      <<1018, 1018, 1, 1>>, <<1021, 1023, -130, 1>>, <<1024, 1039, 80, 1>>,
      <<1040, 1071, 32, 1>>, <<1120, 1152, 1, 2>>, <<1162, 1214, 1, 2>>,
      <<1216, 1216, 15, 1>>, <<1217, 1229, 1, 2>>, <<1232, 1326, 1, 2>>,
      <<1329, 1366, 48, 1>>, <<4256, 4293, 7264, 1>>,
      <<4295, 4295, 7264, 1>>, <<4301, 4301, 7264, 1>>,
      <<5024, 5103, 38864, 1>>, <<5104, 5109, 8, 1>>, <<7305, 7305, 1, 1>>,
      <<7312, 7354, -3008, 1>>, <<7357, 7359, -3008, 1>>,
      <<7680, 7828, 1, 2>>, <<7838, 7838, -7615, 1>>, <<7840, 7934, 1, 2>>,
      <<7944, 7951, -8, 1>>, <<7960, 7965, -8, 1>>, <<7976, 7983, -8, 1>>,
      <<7992, 7999, -8, 1>>, <<8008, 8013, -8, 1>>, <<8025, 8031, -8, 2>>,
      <<8040, 8047, -8, 1>>, <<8072, 8079, -8, 1>>, <<8088, 8095, -8, 1>>,
      <<8104, 8111, -8, 1>>, <<8120, 8121, -8, 1>>, <<8122, 8123, -74, 1>>,
      <<8124, 8124, -9, 1>>, <<8136, 8139, -86, 1>>, <<8140, 8140, -9, 1>>,
      <<8152, 8153, -8, 1>>, <<8154, 8155, -100, 1>>, <<8168, 8169, -8, 1>>,
      <<8170, 8171, -112, 1>>, <<8172, 8172, -7, 1>>,
      <<8184, 8185, -128, 1>>, <<8186, 8187, -126, 1>>,
      <<8188, 8188, -9, 1>>, <<8486, 8486, -7517, 1>>,
      <<8490, 8490, -8383, 1>>, <<8491, 8491, -8262, 1>>,
      <<8498, 8498, 28, 1>>, <<8544, 8559, 16, 1>>, <<8579, 8579, 1, 1>>,
      <<9398, 9423, 26, 1>>, <<11264, 11311, 48, 1>>, <<11360, 11360, 1, 1>>,
      <<11362, 11362, -10743, 1>>, <<11363, 11363, -3814, 1>>,
      <<11364, 11364, -10727, 1>>, <<11367, 11371, 1, 2>>,
      <<11373, 11373, -10780, 1>>, <<11374, 11374, -10749, 1>>,
      <<11375, 11375, -10783, 1>>, <<11376, 11376, -10782, 1>>,
      <<11378, 11378, 1, 1>>, <<11381, 11381, 1, 1>>,
      <<11390, 11391, -10815, 1>>, <<11392, 11490, 1, 2>>,
      <<11499, 11501, 1, 2>>, <<11506, 11506, 1, 1>>, <<42560, 42604, 1, 2>>,
      <<42624, 42650, 1, 2>>, <<42786, 42798, 1, 2>>, <<42802, 42862, 1, 2>>,
      <<42873, 42875, 1, 2>>, <<42877, 42877, -35332, 1>>,
      <<42878, 42886, 1, 2>>, <<42891, 42891, 1, 1>>,
      <<42893, 42893, -42280, 1>>, <<42896, 42898, 1, 2>>,
      <<42902, 42920, 1, 2>>, <<42922, 42922, -42308, 1>>,
      <<42923, 42923, -42319, 1>>, <<42924, 42924, -42315, 1>>,
      <<42925, 42925, -42305, 1>>, <<42926, 42926, -42308, 1>>,
      <<42928, 42928, -42258, 1>>, <<42929, 42929, -42282, 1>>,
      <<42930, 42930, -42261, 1>>, <<42931, 42931, 928, 1>>,
      <<42932, 42946, 1, 2>>, <<42948, 42948, -48, 1>>,
      <<42949, 42949, -42307, 1>>, <<42950, 42950, -35384, 1>>,
      <<42951, 42953, 1, 2>>, <<42955, 42955, -42343, 1>>,
      <<42956, 42970, 1, 2>>, <<42972, 42972, -42561, 1>>,
      <<42997, 42997, 1, 1>>, <<65313, 65338, 32, 1>>,
      <<66560, 66599, 40, 1>>, <<66736, 66771, 40, 1>>,
      <<66928, 66938, 39, 1>>, <<66940, 66954, 39, 1>>,
      <<66956, 66962, 39, 1>>, <<66964, 66965, 39, 1>>,
      <<68736, 68786, 64, 1>>, <<68944, 68965, 32, 1>>,
      <<71840, 71871, 32, 1>>, <<93760, 93791, 32, 1>>,
      <<93856, 93880, 27, 1>>, <<125184, 125217, 34, 1>>
    }

\* String.prototype.toUpperCase beyond Basic Latin, in the same form, for the
\* code points whose upper case is one character
UpperRanges ==
    {
      <<181, 181, 743, 1>>, <<224, 246, -32, 1>>, <<248, 254, -32, 1>>,
      <<255, 255, 121, 1>>, <<257, 303, -1, 2>>, <<305, 305, -232, 1>>,
      <<307, 311, -1, 2>>, <<314, 328, -1, 2>>, <<331, 375, -1, 2>>,
      <<378, 382, -1, 2>>, <<383, 383, -300, 1>>, <<384, 384, 195, 1>>,
      <<387, 389, -1, 2>>, <<392, 392, -1, 1>>, <<396, 396, -1, 1>>,
      <<402, 402, -1, 1>>, <<405, 405, 97, 1>>, <<409, 409, -1, 1>>,
      <<410, 410, 163, 1>>, <<411, 411, 42561, 1>>, <<414, 414, 130, 1>>,
      <<417, 421, -1, 2>>, <<424, 424, -1, 1>>, <<429, 429, -1, 1>>,
      <<432, 432, -1, 1>>, <<436, 438, -1, 2>>, <<441, 441, -1, 1>>,
      <<445, 445, -1, 1>>, <<447, 447, 56, 1>>, <<453, 453, -1, 1>>,
      <<454, 454, -2, 1>>, <<456, 456, -1, 1>>, <<457, 457, -2, 1>>,
      <<459, 459, -1, 1>>, <<460, 460, -2, 1>>, <<462, 476, -1, 2>>,
      <<477, 477, -79, 1>>, <<479, 495, -1, 2>>, <<498, 498, -1, 1>>,
      <<499, 499, -2, 1>>, <<501, 501, -1, 1>>, <<505, 543, -1, 2>>,
      <<547, 563, -1, 2>>, <<572, 572, -1, 1>>, <<575, 576, 10815, 1>>,
      <<578, 578, -1, 1>>, <<583, 591, -1, 2>>, <<592, 592, 10783, 1>>,
      <<593, 593, 10780, 1>>, <<594, 594, 10782, 1>>, <<595, 595, -210, 1>>,
      <<596, 596, -206, 1>>, <<598, 599, -205, 1>>, <<601, 601, -202, 1>>,
      <<603, 603, -203, 1>>, <<604, 604, 42319, 1>>, <<608, 608, -205, 1>>,
      <<609, 609, 42315, 1>>, <<611, 611, -207, 1>>, <<612, 612, 42343, 1>>,
      <<613, 613, 42280, 1>>, <<614, 614, 42308, 1>>, <<616, 616, -209, 1>>,
      <<617, 617, -211, 1>>, <<618, 618, 42308, 1>>, <<619, 619, 10743, 1>>,
      <<620, 620, 42305, 1>>, <<623, 623, -211, 1>>, <<625, 625, 10749, 1>>,
      <<626, 626, -213, 1>>, <<629, 629, -214, 1>>, <<637, 637, 10727, 1>>,
      <<640, 640, -218, 1>>, <<642, 642, 42307, 1>>, <<643, 643, -218, 1>>,
      <<647, 647, 42282, 1>>, <<648, 648, -218, 1>>, <<649, 649, -69, 1>>,
      <<650, 651, -217, 1>>, <<652, 652, -71, 1>>, <<658, 658, -219, 1>>,
      <<669, 669, 42261, 1>>, <<670, 670, 42258, 1>>, <<837, 837, 84, 1>>,
      <<881, 883, -1, 2>>, <<887, 887, -1, 1>>, <<891, 893, 130, 1>>,
      <<940, 940, -38, 1>>, <<941, 943, -37, 1>>, <<945, 961, -32, 1>>,
      <<962, 962, -31, 1>>, <<963, 971, -32, 1>>, <<972, 972, -64, 1>>,
      <<973, 974, -63, 1>>, <<976, 976, -62, 1>>, <<977, 977, -57, 1>>,
      <<981, 981, -47, 1>>, <<982, 982, -54, 1>>, <<983, 983, -8, 1>>,
      <<985, 1007, -1, 2>>, <<1008, 1008, -86, 1>>, <<1009, 1009, -80, 1>>,
      <<1010, 1010, 7, 1>>, <<1011, 1011, -116, 1>>, <<1013, 1013, -96, 1>>,
      <<1016, 1016, -1, 1>>, <<1019, 1019, -1, 1>>, <<1072, 1103, -32, 1>>,
      <<1104, 1119, -80, 1>>, <<1121, 1153, -1, 2>>, <<1163, 1215, -1, 2>>,
      <<1218, 1230, -1, 2>>, <<1231, 1231, -15, 1>>, <<1233, 1327, -1, 2>>,
      <<1377, 1414, -48, 1>>, <<4304, 4346, 3008, 1>>,
      <<4349, 4351, 3008, 1>>, <<5112, 5117, -8, 1>>,
      <<7296, 7296, -6254, 1>>, <<7297, 7297, -6253, 1>>,
      <<7298, 7298, -6244, 1>>, <<7299, 7300, -6242, 1>>,
      <<7301, 7301, -6243, 1>>, <<7302, 7302, -6236, 1>>,
      <<7303, 7303, -6181, 1>>, <<7304, 7304, 35266, 1>>,
      <<7306, 7306, -1, 1>>, <<7545, 7545, 35332, 1>>,
      <<7549, 7549, 3814, 1>>, <<7566, 7566, 35384, 1>>,
      <<7681, 7829, -1, 2>>, <<7835, 7835, -59, 1>>, <<7841, 7935, -1, 2>>,
      <<7936, 7943, 8, 1>>, <<7952, 7957, 8, 1>>, <<7968, 7975, 8, 1>>,
      <<7984, 7991, 8, 1>>, <<8000, 8005, 8, 1>>, <<8017, 8023, 8, 2>>,
      <<8032, 8039, 8, 1>>, <<8048, 8049, 74, 1>>, <<8050, 8053, 86, 1>>,
      <<8054, 8055, 100, 1>>, <<8056, 8057, 128, 1>>, <<8058, 8059, 112, 1>>,
      <<8060, 8061, 126, 1>>, <<8112, 8113, 8, 1>>, <<8126, 8126, -7205, 1>>,
      <<8144, 8145, 8, 1>>, <<8160, 8161, 8, 1>>, <<8165, 8165, 7, 1>>,
      <<8526, 8526, -28, 1>>, <<8560, 8575, -16, 1>>, <<8580, 8580, -1, 1>>,
      <<9424, 9449, -26, 1>>, <<11312, 11359, -48, 1>>,
      <<11361, 11361, -1, 1>>, <<11365, 11365, -10795, 1>>,
      <<11366, 11366, -10792, 1>>, <<11368, 11372, -1, 2>>,
      <<11379, 11379, -1, 1>>, <<11382, 11382, -1, 1>>,
      <<11393, 11491, -1, 2>>, <<11500, 11502, -1, 2>>,
      <<11507, 11507, -1, 1>>, <<11520, 11557, -7264, 1>>,
      <<11559, 11559, -7264, 1>>, <<11565, 11565, -7264, 1>>,
      <<42561, 42605, -1, 2>>, <<42625, 42651, -1, 2>>,
      <<42787, 42799, -1, 2>>, <<42803, 42863, -1, 2>>,
      <<42874, 42876, -1, 2>>, <<42879, 42887, -1, 2>>,
      <<42892, 42892, -1, 1>>, <<42897, 42899, -1, 2>>,
      <<42900, 42900, 48, 1>>, <<42903, 42921, -1, 2>>,
      <<42933, 42947, -1, 2>>, <<42952, 42954, -1, 2>>,
      <<42957, 42971, -1, 2>>, <<42998, 42998, -1, 1>>,
      <<43859, 43859, -928, 1>>, <<43888, 43967, -38864, 1>>,
      <<65345, 65370, -32, 1>>, <<66600, 66639, -40, 1>>,
      <<66776, 66811, -40, 1>>, <<66967, 66977, -39, 1>>,
      <<66979, 66993, -39, 1>>, <<66995, 67001, -39, 1>>,
      <<67003, 67004, -39, 1>>, <<68800, 68850, -64, 1>>,
      <<68976, 68997, -32, 1>>, <<71872, 71903, -32, 1>>,
      <<93792, 93823, -32, 1>>, <<93883, 93907, -27, 1>>,
      <<125218, 125251, -34, 1>>
    }

\* <<c, s>>: the upper case of the code point c is the several characters s
UpperSpecial ==
    {
      <<223, <<83, 83>>>>, <<329, <<700, 78>>>>, <<496, <<74, 780>>>>,
      <<912, <<921, 776, 769>>>>, <<944, <<933, 776, 769>>>>,
      <<1415, <<1333, 1362>>>>, <<7830, <<72, 817>>>>, <<7831, <<84, 776>>>>,
      <<7832, <<87, 778>>>>, <<7833, <<89, 778>>>>, <<7834, <<65, 702>>>>,
      <<8016, <<933, 787>>>>, <<8018, <<933, 787, 768>>>>,
      <<8020, <<933, 787, 769>>>>, <<8022, <<933, 787, 834>>>>,
      <<8064, <<7944, 921>>>>, <<8065, <<7945, 921>>>>,
      <<8066, <<7946, 921>>>>, <<8067, <<7947, 921>>>>,
      <<8068, <<7948, 921>>>>, <<8069, <<7949, 921>>>>,
      <<8070, <<7950, 921>>>>, <<8071, <<7951, 921>>>>,
      <<8072, <<7944, 921>>>>, <<8073, <<7945, 921>>>>,
      <<8074, <<7946, 921>>>>, <<8075, <<7947, 921>>>>,
      <<8076, <<7948, 921>>>>, <<8077, <<7949, 921>>>>,
      <<8078, <<7950, 921>>>>, <<8079, <<7951, 921>>>>,
      <<8080, <<7976, 921>>>>, <<8081, <<7977, 921>>>>,
      <<8082, <<7978, 921>>>>, <<8083, <<7979, 921>>>>,
      <<8084, <<7980, 921>>>>, <<8085, <<7981, 921>>>>,
      <<8086, <<7982, 921>>>>, <<8087, <<7983, 921>>>>,
      <<8088, <<7976, 921>>>>, <<8089, <<7977, 921>>>>,
      <<8090, <<7978, 921>>>>, <<8091, <<7979, 921>>>>,
      <<8092, <<7980, 921>>>>, <<8093, <<7981, 921>>>>,
      <<8094, <<7982, 921>>>>, <<8095, <<7983, 921>>>>,
      <<8096, <<8040, 921>>>>, <<8097, <<8041, 921>>>>,
      <<8098, <<8042, 921>>>>, <<8099, <<8043, 921>>>>,
      <<8100, <<8044, 921>>>>, <<8101, <<8045, 921>>>>,
      <<8102, <<8046, 921>>>>, <<8103, <<8047, 921>>>>,
      <<8104, <<8040, 921>>>>, <<8105, <<8041, 921>>>>,
      <<8106, <<8042, 921>>>>, <<8107, <<8043, 921>>>>,
      <<8108, <<8044, 921>>>>, <<8109, <<8045, 921>>>>,
      <<8110, <<8046, 921>>>>, <<8111, <<8047, 921>>>>,
      <<8114, <<8122, 921>>>>, <<8115, <<913, 921>>>>,
      <<8116, <<902, 921>>>>, <<8118, <<913, 834>>>>,
      <<8119, <<913, 834, 921>>>>, <<8124, <<913, 921>>>>,
      <<8130, <<8138, 921>>>>, <<8131, <<919, 921>>>>,
      <<8132, <<905, 921>>>>, <<8134, <<919, 834>>>>,
      <<8135, <<919, 834, 921>>>>, <<8140, <<919, 921>>>>,
      <<8146, <<921, 776, 768>>>>, <<8147, <<921, 776, 769>>>>,
      <<8150, <<921, 834>>>>, <<8151, <<921, 776, 834>>>>,
      <<8162, <<933, 776, 768>>>>, <<8163, <<933, 776, 769>>>>,
      <<8164, <<929, 787>>>>, <<8166, <<933, 834>>>>,
      <<8167, <<933, 776, 834>>>>, <<8178, <<8186, 921>>>>,
      <<8179, <<937, 921>>>>, <<8180, <<911, 921>>>>, <<8182, <<937, 834>>>>,
      <<8183, <<937, 834, 921>>>>, <<8188, <<937, 921>>>>,
      <<64256, <<70, 70>>>>, <<64257, <<70, 73>>>>, <<64258, <<70, 76>>>>,
      <<64259, <<70, 70, 73>>>>, <<64260, <<70, 70, 76>>>>,
      <<64261, <<83, 84>>>>, <<64262, <<83, 84>>>>,
      <<64275, <<1348, 1350>>>>, <<64276, <<1348, 1333>>>>,
      <<64277, <<1348, 1339>>>>, <<64278, <<1358, 1350>>>>,
      <<64279, <<1348, 1341>>>>
    }

\* <<lo, hi>>: the code points from lo to hi are cased letters that are not
\* case-ignorable (Unicode 17)
CasedRanges ==
    {
      <<65, 90>>, <<97, 122>>, <<170, 170>>, <<181, 181>>, <<186, 186>>,
      <<192, 214>>, <<216, 246>>, <<248, 442>>, <<444, 447>>, <<452, 659>>,
      <<662, 687>>, <<880, 883>>, <<886, 887>>, <<891, 893>>, <<895, 895>>,
      <<902, 902>>, <<904, 906>>, <<908, 908>>, <<910, 929>>, <<931, 1013>>,
      <<1015, 1153>>, <<1162, 1327>>, <<1329, 1366>>, <<1376, 1416>>,
      <<4256, 4293>>, <<4295, 4295>>, <<4301, 4301>>, <<4304, 4346>>,
      <<4349, 4351>>, <<5024, 5109>>, <<5112, 5117>>, <<7296, 7306>>,
      <<7312, 7354>>, <<7357, 7359>>, <<7424, 7467>>, <<7531, 7543>>,
      <<7545, 7578>>, <<7680, 7957>>, <<7960, 7965>>, <<7968, 8005>>,
      <<8008, 8013>>, <<8016, 8023>>, <<8025, 8025>>, <<8027, 8027>>,
      <<8029, 8029>>, <<8031, 8061>>, <<8064, 8116>>, <<8118, 8124>>,
      <<8126, 8126>>, <<8130, 8132>>, <<8134, 8140>>, <<8144, 8147>>,
      <<8150, 8155>>, <<8160, 8172>>, <<8178, 8180>>, <<8182, 8188>>,
      <<8450, 8450>>, <<8455, 8455>>, <<8458, 8467>>, <<8469, 8469>>,
      <<8473, 8477>>, <<8484, 8484>>, <<8486, 8486>>, <<8488, 8488>>,
      <<8490, 8493>>, <<8495, 8500>>, <<8505, 8505>>, <<8508, 8511>>,
      <<8517, 8521>>, <<8526, 8526>>, <<8544, 8575>>, <<8579, 8580>>,
      <<9398, 9449>>, <<11264, 11387>>, <<11390, 11492>>, <<11499, 11502>>,
      <<11506, 11507>>, <<11520, 11557>>, <<11559, 11559>>, <<11565, 11565>>,
      <<42560, 42605>>, <<42624, 42651>>, <<42786, 42863>>, <<42865, 42887>>,
      <<42891, 42894>>, <<42896, 42972>>, <<42997, 42998>>, <<43002, 43002>>,
      <<43824, 43866>>, <<43872, 43880>>, <<43888, 43967>>, <<64256, 64262>>,
      <<64275, 64279>>, <<65313, 65338>>, <<65345, 65370>>, <<66560, 66639>>,
      <<66736, 66771>>, <<66776, 66811>>, <<66928, 66938>>, <<66940, 66954>>,
      <<66956, 66962>>, <<66964, 66965>>, <<66967, 66977>>, <<66979, 66993>>,
      <<66995, 67001>>, <<67003, 67004>>, <<68736, 68786>>, <<68800, 68850>>,
      <<68944, 68965>>, <<68976, 68997>>, <<71840, 71903>>, <<93760, 93823>>,
      <<93856, 93880>>, <<93883, 93907>>, <<119808, 119892>>,
      <<119894, 119964>>, <<119966, 119967>>, <<119970, 119970>>,
      <<119973, 119974>>, <<119977, 119980>>, <<119982, 119993>>,
      <<119995, 119995>>, <<119997, 120003>>, <<120005, 120069>>,
      <<120071, 120074>>, <<120077, 120084>>, <<120086, 120092>>,
      <<120094, 120121>>, <<120123, 120126>>, <<120128, 120132>>,
      <<120134, 120134>>, <<120138, 120144>>, <<120146, 120485>>,
      <<120488, 120512>>, <<120514, 120538>>, <<120540, 120570>>,
      <<120572, 120596>>, <<120598, 120628>>, <<120630, 120654>>,
      <<120656, 120686>>, <<120688, 120712>>, <<120714, 120744>>,
      <<120746, 120770>>, <<120772, 120779>>, <<122624, 122633>>,
      <<122635, 122654>>, <<122661, 122666>>, <<125184, 125251>>,
      <<127280, 127305>>, <<127312, 127337>>, <<127344, 127369>>
    }

\* <<lo, hi>>: the code points from lo to hi have the property
\* Case_Ignorable (Unicode 17)
CaseIgnorableRanges ==
    {
      <<39, 39>>, <<46, 46>>, <<58, 58>>, <<94, 94>>, <<96, 96>>,
      <<168, 168>>, <<173, 173>>, <<175, 175>>, <<180, 180>>, <<183, 184>>,
      <<688, 879>>, <<884, 885>>, <<890, 890>>, <<900, 901>>, <<903, 903>>,
      <<1155, 1161>>, <<1369, 1369>>, <<1375, 1375>>, <<1425, 1469>>,
      <<1471, 1471>>, <<1473, 1474>>, <<1476, 1477>>, <<1479, 1479>>,
      <<1524, 1524>>, <<1536, 1541>>, <<1552, 1562>>, <<1564, 1564>>,
      <<1600, 1600>>, <<1611, 1631>>, <<1648, 1648>>, <<1750, 1757>>,
      <<1759, 1768>>, <<1770, 1773>>, <<1807, 1807>>, <<1809, 1809>>,
      <<1840, 1866>>, <<1958, 1968>>, <<2027, 2037>>, <<2042, 2042>>,
      <<2045, 2045>>, <<2070, 2093>>, <<2137, 2139>>, <<2184, 2184>>,
      <<2192, 2193>>, <<2199, 2207>>, <<2249, 2306>>, <<2362, 2362>>,
      <<2364, 2364>>, <<2369, 2376>>, <<2381, 2381>>, <<2385, 2391>>,
      <<2402, 2403>>, <<2417, 2417>>, <<2433, 2433>>, <<2492, 2492>>,
      <<2497, 2500>>, <<2509, 2509>>, <<2530, 2531>>, <<2558, 2558>>,
      <<2561, 2562>>, <<2620, 2620>>, <<2625, 2626>>, <<2631, 2632>>,
      <<2635, 2637>>, <<2641, 2641>>, <<2672, 2673>>, <<2677, 2677>>,
      <<2689, 2690>>, <<2748, 2748>>, <<2753, 2757>>, <<2759, 2760>>,
      <<2765, 2765>>, <<2786, 2787>>, <<2810, 2815>>, <<2817, 2817>>,
      <<2876, 2876>>, <<2879, 2879>>, <<2881, 2884>>, <<2893, 2893>>,
      <<2901, 2902>>, <<2914, 2915>>, <<2946, 2946>>, <<3008, 3008>>,
      <<3021, 3021>>, <<3072, 3072>>, <<3076, 3076>>, <<3132, 3132>>,
      <<3134, 3136>>, <<3142, 3144>>, <<3146, 3149>>, <<3157, 3158>>,
      <<3170, 3171>>, <<3201, 3201>>, <<3260, 3260>>, <<3263, 3263>>,
      <<3270, 3270>>, <<3276, 3277>>, <<3298, 3299>>, <<3328, 3329>>,
      <<3387, 3388>>, <<3393, 3396>>, <<3405, 3405>>, <<3426, 3427>>,
      <<3457, 3457>>, <<3530, 3530>>, <<3538, 3540>>, <<3542, 3542>>,
      <<3633, 3633>>, <<3636, 3642>>, <<3654, 3662>>, <<3761, 3761>>,
      <<3764, 3772>>, <<3782, 3782>>, <<3784, 3790>>, <<3864, 3865>>,
      <<3893, 3893>>, <<3895, 3895>>, <<3897, 3897>>, <<3953, 3966>>,
      <<3968, 3972>>, <<3974, 3975>>, <<3981, 3991>>, <<3993, 4028>>,
      <<4038, 4038>>, <<4141, 4144>>, <<4146, 4151>>, <<4153, 4154>>,
      <<4157, 4158>>, <<4184, 4185>>, <<4190, 4192>>, <<4209, 4212>>,
      <<4226, 4226>>, <<4229, 4230>>, <<4237, 4237>>, <<4253, 4253>>,
      <<4348, 4348>>, <<4957, 4959>>, <<5906, 5908>>, <<5938, 5939>>,
      <<5970, 5971>>, <<6002, 6003>>, <<6068, 6069>>, <<6071, 6077>>,
      <<6086, 6086>>, <<6089, 6099>>, <<6103, 6103>>, <<6109, 6109>>,
      <<6155, 6159>>, <<6211, 6211>>, <<6277, 6278>>, <<6313, 6313>>,
      <<6432, 6434>>, <<6439, 6440>>, <<6450, 6450>>, <<6457, 6459>>,
      <<6679, 6680>>, <<6683, 6683>>, <<6742, 6742>>, <<6744, 6750>>,
      <<6752, 6752>>, <<6754, 6754>>, <<6757, 6764>>, <<6771, 6780>>,
      <<6783, 6783>>, <<6823, 6823>>, <<6832, 6877>>, <<6880, 6891>>,
      <<6912, 6915>>, <<6964, 6964>>, <<6966, 6970>>, <<6972, 6972>>,
      <<6978, 6978>>, <<7019, 7027>>, <<7040, 7041>>, <<7074, 7077>>,
      <<7080, 7081>>, <<7083, 7085>>, <<7142, 7142>>, <<7144, 7145>>,
      <<7149, 7149>>, <<7151, 7153>>, <<7212, 7219>>, <<7222, 7223>>,
      <<7288, 7293>>, <<7376, 7378>>, <<7380, 7392>>, <<7394, 7400>>,
      <<7405, 7405>>, <<7412, 7412>>, <<7416, 7417>>, <<7468, 7530>>,
      <<7544, 7544>>, <<7579, 7679>>, <<8125, 8125>>, <<8127, 8129>>,
      <<8141, 8143>>, <<8157, 8159>>, <<8173, 8175>>, <<8189, 8190>>,
      <<8203, 8207>>, <<8216, 8217>>, <<8228, 8228>>, <<8231, 8231>>,
      <<8234, 8238>>, <<8288, 8292>>, <<8294, 8303>>, <<8305, 8305>>,
      <<8319, 8319>>, <<8336, 8348>>, <<8400, 8432>>, <<11388, 11389>>,
      <<11503, 11505>>, <<11631, 11631>>, <<11647, 11647>>, <<11744, 11775>>,
      <<11823, 11823>>, <<12293, 12293>>, <<12330, 12333>>, <<12337, 12341>>,
      <<12347, 12347>>, <<12441, 12446>>, <<12540, 12542>>, <<40981, 40981>>,
      <<42232, 42237>>, <<42508, 42508>>, <<42607, 42610>>, <<42612, 42621>>,
      <<42623, 42623>>, <<42652, 42655>>, <<42736, 42737>>, <<42752, 42785>>,
      <<42864, 42864>>, <<42888, 42890>>, <<42993, 42996>>, <<43000, 43001>>,
      <<43010, 43010>>, <<43014, 43014>>, <<43019, 43019>>, <<43045, 43046>>,
      <<43052, 43052>>, <<43204, 43205>>, <<43232, 43249>>, <<43263, 43263>>,
      <<43302, 43309>>, <<43335, 43345>>, <<43392, 43394>>, <<43443, 43443>>,
      <<43446, 43449>>, <<43452, 43453>>, <<43471, 43471>>, <<43493, 43494>>,
      <<43561, 43566>>, <<43569, 43570>>, <<43573, 43574>>, <<43587, 43587>>,
      <<43596, 43596>>, <<43632, 43632>>, <<43644, 43644>>, <<43696, 43696>>,
      <<43698, 43700>>, <<43703, 43704>>, <<43710, 43711>>, <<43713, 43713>>,
      <<43741, 43741>>, <<43756, 43757>>, <<43763, 43764>>, <<43766, 43766>>,
      <<43867, 43871>>, <<43881, 43883>>, <<44005, 44005>>, <<44008, 44008>>,
      <<44013, 44013>>, <<64286, 64286>>, <<64434, 64450>>, <<65024, 65039>>,
      <<65043, 65043>>, <<65056, 65071>>, <<65106, 65106>>, <<65109, 65109>>,
      <<65279, 65279>>, <<65287, 65287>>, <<65294, 65294>>, <<65306, 65306>>,
      <<65342, 65342>>, <<65344, 65344>>, <<65392, 65392>>, <<65438, 65439>>,
      <<65507, 65507>>, <<65529, 65531>>, <<66045, 66045>>, <<66272, 66272>>,
      <<66422, 66426>>, <<67456, 67461>>, <<67463, 67504>>, <<67506, 67514>>,
      <<68097, 68099>>, <<68101, 68102>>, <<68108, 68111>>, <<68152, 68154>>,
      <<68159, 68159>>, <<68325, 68326>>, <<68900, 68903>>, <<68942, 68942>>,
      <<68969, 68973>>, <<68975, 68975>>, <<69291, 69292>>, <<69317, 69317>>,
      <<69370, 69375>>, <<69446, 69456>>, <<69506, 69509>>, <<69633, 69633>>,
      <<69688, 69702>>, <<69744, 69744>>, <<69747, 69748>>, <<69759, 69761>>,
      <<69811, 69814>>, <<69817, 69818>>, <<69821, 69821>>, <<69826, 69826>>,
      <<69837, 69837>>, <<69888, 69890>>, <<69927, 69931>>, <<69933, 69940>>,
      <<70003, 70003>>, <<70016, 70017>>, <<70070, 70078>>, <<70089, 70092>>,
      <<70095, 70095>>, <<70191, 70193>>, <<70196, 70196>>, <<70198, 70199>>,
      <<70206, 70206>>, <<70209, 70209>>, <<70367, 70367>>, <<70371, 70378>>,
      <<70400, 70401>>, <<70459, 70460>>, <<70464, 70464>>, <<70502, 70508>>,
      <<70512, 70516>>, <<70587, 70592>>, <<70606, 70606>>, <<70608, 70608>>,
      <<70610, 70610>>, <<70625, 70626>>, <<70712, 70719>>, <<70722, 70724>>,
      <<70726, 70726>>, <<70750, 70750>>, <<70835, 70840>>, <<70842, 70842>>,
      <<70847, 70848>>, <<70850, 70851>>, <<71090, 71093>>, <<71100, 71101>>,
      <<71103, 71104>>, <<71132, 71133>>, <<71219, 71226>>, <<71229, 71229>>,
      <<71231, 71232>>, <<71339, 71339>>, <<71341, 71341>>, <<71344, 71349>>,
      <<71351, 71351>>, <<71453, 71453>>, <<71455, 71455>>, <<71458, 71461>>,
      <<71463, 71467>>, <<71727, 71735>>, <<71737, 71738>>, <<71995, 71996>>,
      <<71998, 71998>>, <<72003, 72003>>, <<72148, 72151>>, <<72154, 72155>>,
      <<72160, 72160>>, <<72193, 72202>>, <<72243, 72248>>, <<72251, 72254>>,
      <<72263, 72263>>, <<72273, 72278>>, <<72281, 72283>>, <<72330, 72342>>,
      <<72344, 72345>>, <<72544, 72544>>, <<72546, 72548>>, <<72550, 72550>>,
      <<72752, 72758>>, <<72760, 72765>>, <<72767, 72767>>, <<72850, 72871>>,
      <<72874, 72880>>, <<72882, 72883>>, <<72885, 72886>>, <<73009, 73014>>,
      <<73018, 73018>>, <<73020, 73021>>, <<73023, 73029>>, <<73031, 73031>>,
      <<73104, 73105>>, <<73109, 73109>>, <<73111, 73111>>, <<73177, 73177>>,
      <<73459, 73460>>, <<73472, 73473>>, <<73526, 73530>>, <<73536, 73536>>,
      <<73538, 73538>>, <<73562, 73562>>, <<78896, 78912>>, <<78919, 78933>>,
      <<90398, 90409>>, <<90413, 90415>>, <<92912, 92916>>, <<92976, 92982>>,
      <<92992, 92995>>, <<93504, 93506>>, <<93547, 93548>>, <<94031, 94031>>,
      <<94095, 94111>>, <<94176, 94177>>, <<94179, 94180>>, <<94194, 94195>>,
      <<110576, 110579>>, <<110581, 110587>>, <<110589, 110590>>,
      <<113821, 113822>>, <<113824, 113827>>, <<118528, 118573>>,
      <<118576, 118598>>, <<119143, 119145>>, <<119155, 119170>>,
      <<119173, 119179>>, <<119210, 119213>>, <<119362, 119364>>,
      <<121344, 121398>>, <<121403, 121452>>, <<121461, 121461>>,
      <<121476, 121476>>, <<121499, 121503>>, <<121505, 121519>>,
      <<122880, 122886>>, <<122888, 122904>>, <<122907, 122913>>,
      <<122915, 122916>>, <<122918, 122922>>, <<122928, 122989>>,
      <<123023, 123023>>, <<123184, 123197>>, <<123566, 123566>>,
      <<123628, 123631>>, <<124139, 124143>>, <<124398, 124399>>,
      <<124643, 124643>>, <<124646, 124646>>, <<124654, 124655>>,
      <<124661, 124661>>, <<124671, 124671>>, <<125136, 125142>>,
      <<125252, 125259>>, <<127995, 127999>>, <<917505, 917505>>,
      <<917536, 917631>>, <<917760, 917999>>
    }

InRanges(c, ranges) == \E r \in ranges : r[1] <= c /\ c <= r[2]

\* The distance from a code point to its lower case, 0 when it has none
LowerDelta(c) ==
    LET rs == {r \in LowerRanges :
                  r[1] <= c /\ c <= r[2] /\ (c - r[1]) % r[4] = 0}
    IN  IF rs = {} THEN 0 ELSE (CHOOSE r \in rs : TRUE)[3]

\* String.fromCodePoint
FromCodePoint(c) ==
    IF c < 65536 THEN <<c>>
    ELSE <<55296 + ((c - 65536) \div 1024), 56320 + ((c - 65536) % 1024)>>

\* position j holds the second half of a surrogate pair
IsTrail(s, j) ==
    j > 1 /\ s[j] \in 56320..57343 /\ s[j - 1] \in 55296..56319

\* String.prototype.codePointAt: the character that starts at position j; a
\* surrogate that has no partner stands for itself
CodePointAt(s, j) ==
    IF s[j] \in 55296..56319 /\ j < Len(s) /\ s[j + 1] \in 56320..57343
    THEN 65536 + (s[j] - 55296) * 1024 + (s[j + 1] - 56320)
    ELSE s[j]

\* The lower case of the character with code point c, as code units, when
\* nothing around it matters: U+0130 becomes i and a combining dot, no
\* character from U+2CF3 to U+A63F has a lower case of its own
ToLowerChar(c) ==
    IF c < 128 THEN <<IF c \in 65..90 THEN c + 32 ELSE c>>
    ELSE IF c \in 11507..42559 THEN <<c>>
    ELSE IF c = 304 THEN <<105, 775>>
    ELSE FromCodePoint(c + LowerDelta(c))

\* A capital sigma is written as a final sigma when a cased letter comes
\* before it and none comes after it, case-ignorable characters skipped
FinalSigma(s, j) ==
    LET cased == {i \in 1..Len(s) :
                     ~IsTrail(s, i) /\ InRanges(CodePointAt(s, i), CasedRanges)}
        skipped == {i \in 1..Len(s) :
                       \/ IsTrail(s, i)
                       \/ InRanges(CodePointAt(s, i), CaseIgnorableRanges)}
    IN  /\ \E i \in cased : i < j /\ (i + 1)..(j - 1) \subseteq skipped
        /\ ~\E i \in cased : i > j /\ (j + 1)..(i - 1) \subseteq skipped

\* The concatenation of pieces[lo], ..., pieces[hi]
RECURSIVE Join(_, _, _)
Join(pieces, lo, hi) ==
    IF lo > hi THEN <<>>
    ELSE IF lo = hi THEN pieces[lo]
    ELSE Join(pieces, lo, (lo + hi) \div 2)
            \o Join(pieces, ((lo + hi) \div 2) + 1, hi)

\* Each character gives its lower case; the second half of a surrogate pair
\* goes with the first
toLowerCase(s) ==
    Join([j \in 1..Len(s) |->
             IF IsTrail(s, j) THEN <<>>
             ELSE IF s[j] = 931 /\ FinalSigma(s, j) THEN <<962>>
             ELSE ToLowerChar(CodePointAt(s, j))], 1, Len(s))

\* The distance from a code point to its upper case, 0 when it has none or
\* when its upper case is several characters
UpperDelta(c) ==
    LET rs == {r \in UpperRanges :
                  r[1] <= c /\ c <= r[2] /\ (c - r[1]) % r[4] = 0}
    IN  IF rs = {} THEN 0 ELSE (CHOOSE r \in rs : TRUE)[3]

\* The upper case of the code point c, as code units, special being the
\* entries c has in UpperSpecial
UpperOf(c, special) ==
    IF special # {} THEN (CHOOSE r \in special : TRUE)[2]
    ELSE FromCodePoint(c + UpperDelta(c))

\* The upper case of the character with code point c, as code units; no
\* character from U+2D2E to U+A640 has an upper case of its own
ToUpperChar(c) ==
    IF c < 128 THEN <<IF c \in 97..122 THEN c - 32 ELSE c>>
    ELSE IF c \in 11566..42560 THEN <<c>>
    ELSE UpperOf(c, {r \in UpperSpecial : r[1] = c})

\* Each character gives its upper case; the second half of a surrogate pair
\* goes with the first
toUpperCase(s) ==
    Join([j \in 1..Len(s) |->
             IF IsTrail(s, j) THEN <<>> ELSE ToUpperChar(CodePointAt(s, j))],
         1, Len(s))

\* c canonicalized, upper being its upper case
CanonicalOf(c, upper) ==
    IF Len(upper) # 1 THEN c
    ELSE IF c >= 128 /\ upper[1] < 128 THEN c
    ELSE upper[1]

\* Canonicalize of a regular expression with the i flag and without the u
\* flag: the upper case of the code unit, unless that is several characters
\* or takes a character from outside Basic Latin into it
Canonicalize(c) == CanonicalOf(c, ToUpperChar(c))

(***************************************************************************)
(* The words of the source, as code units.                                 *)
(***************************************************************************)
W_hoshiiKanji == <<27442, 12375, 12356>>      \* 欲しい
W_onegai == <<12362, 39000, 12356>>           \* お願い
W_kudasai == <<12367, 12384, 12373, 12356>>   \* ください
W_shikyu == <<33267, 24613>>                  \* 至急
W_kinkyu == <<32202, 24613>>                  \* 緊急
U_hon == <<26412>>                            \* 本
U_ko == <<20491>>                             \* 個
U_g == <<103>>                                \* g
U_gram == <<12464, 12521, 12512>>             \* グラム
N_quolineKana == <<12463, 12458, 12521, 12452, 12531>>   \* クオライン
N_QuoLine == <<81, 117, 111, 76, 105, 110, 101>>         \* QuoLine
N_quoline == <<113, 117, 111, 108, 105, 110, 101>>       \* quoline

\* TRIGGER_WORDS with the unit 本 taken for an order word
TRIGGER_WORDS_WithUnit ==
    <<W_hoshiiKanji,
      <<12411, 12375, 12356>>,                  \* ほしい
      <<30330, 27880>>,                         \* 発注
      <<27880, 25991>>,                         \* 注文
      W_onegai,
      <<24517, 35201>>,                         \* 必要
      <<19979, 12373, 12356>>,                  \* 下さい
      W_kudasai, W_shikyu, W_kinkyu, U_hon>>

TRIGGER_WORDS ==
    <<W_hoshiiKanji,
      <<12411, 12375, 12356>>,                  \* ほしい
      <<30330, 27880>>,                         \* 発注
      <<27880, 25991>>,                         \* 注文
      W_onegai,
      <<24517, 35201>>,                         \* 必要
      <<19979, 12373, 12356>>,                  \* 下さい
      W_kudasai, W_shikyu, W_kinkyu>>

(***************************************************************************)
(* normalizeText                                                           *)
(***************************************************************************)
\* ch => String.fromCharCode(ch.charCodeAt(0) - 0xFEE0) on [U+FF01-U+FF5E]
ZenkakuToHankaku(c) == IF c \in 65281..65374 THEN c - 65248 ELSE c

\* String.prototype.trim
Trim(s) ==
    LET keep == {j \in 1..Len(s) : ~IsSpace(s[j])}
    IN  IF keep = {} THEN <<>>
        ELSE LET lo == CHOOSE j \in keep : \A k \in keep : j <= k
                 hi == CHOOSE j \in keep : \A k \in keep : j >= k
             IN  SubSeq(s, lo, hi)

normalizeText(s) ==
    IF s = <<>> THEN <<>>
    ELSE LET zenkaku == [j \in 1..Len(s) |-> ZenkakuToHankaku(s[j])]
             spaced == [j \in 1..Len(s) |->
                          IF zenkaku[j] = 12288 THEN 32 ELSE zenkaku[j]]
         IN  Trim(spaced)

(***************************************************************************)
(* hasTrigger                                                              *)
(***************************************************************************)
hasTrigger(text) ==
    \E n \in 1..Len(TRIGGER_WORDS) : Includes(text, TRIGGER_WORDS[n])

(***************************************************************************)
(* getProductUnit                                                          *)
(***************************************************************************)
\* /^(\d{1,2}[A-Z]{1,3}|GR\d+|SB\d+|BE\d+|MT\d+|ASH\d+)/i
ColorLike(code) ==
    \/ \E n \in 1..2 :
          /\ Len(code) > n
          /\ \A j \in 1..n : IsDigit(code[j])
          /\ IsAlnum(code[n + 1]) /\ ~IsDigit(code[n + 1])
    \/ \E p \in {<<71, 82>>, <<83, 66>>, <<66, 69>>, <<77, 84>>, <<65, 83, 72>>} :
          /\ Len(code) > Len(p)
          /\ toUpperCase(SubSeq(code, 1, Len(p))) = p
          /\ IsDigit(code[Len(p) + 1])

\* getProductUnit with grams as the unit of what is not a colour
getProductUnit_GramDefault(productCode) ==
    IF ColorLike(toUpperCase(productCode)) THEN U_hon ELSE U_g

getProductUnit(productCode) ==
    LET code == toUpperCase(productCode)
    IN  IF ColorLike(code) THEN U_hon ELSE U_hon

(***************************************************************************)
(* The regular expressions of parseInventoryRequest.  A match is searched  *)
(* as RegExp.prototype.exec does: at the leftmost start position that      *)
(* admits one, each quantifier greedy, giving back characters only when    *)
(* the rest of the pattern fails.                                          *)
(***************************************************************************)
\* \s* at position p: the length of the longest run of white space
SpaceRun(t, p) ==
    CHOOSE n \in 0..(Len(t) - p + 1) :
        /\ \A j \in p..(p + n - 1) : IsSpace(t[j])
        /\ (p + n > Len(t) \/ ~IsSpace(t[p + n]))

\* \d* at position p: the length of the longest run of digits
DigitRun(t, p) ==
    CHOOSE n \in 0..(Len(t) - p + 1) :
        /\ \A j \in p..(p + n - 1) : IsDigit(t[j])
        /\ (p + n > Len(t) \/ ~IsDigit(t[p + n]))

\* [A-Z0-9]* at position p: the length of the longest run of alphanumerics
AlnumRun(t, p) ==
    CHOOSE n \in 0..(Len(t) - p + 1) :
        /\ \A j \in p..(p + n - 1) : IsAlnum(t[j])
        /\ (p + n > Len(t) \/ ~IsAlnum(t[p + n]))

\* A literal of a pattern under the i flag, at position p
MatchIC(t, p, tok) ==
    /\ p + Len(tok) - 1 <= Len(t)
    /\ \A j \in 1..Len(tok) : Canonicalize(t[p + j - 1]) = Canonicalize(tok[j])

\* An optional group of alternatives at position p: the first alternative that
\* matches, as the text spells it, or <<>> (the group is undefined)
OptionalToken(t, p, alts) ==
    LET hit == {n \in 1..Len(alts) : MatchIC(t, p, alts[n])}
    IN  IF hit = {} THEN <<>>
        ELSE SubSeq(t, p, p + Len(alts[Min(hit)]) - 1)

NoMatch == [matched |-> FALSE]

\* The lengths k of group 1 after which \s*(\d+) can match
GenericCodeLens(t, s) ==
    {k \in 2..AlnumRun(t, s) :
        LET p == s + k
            q == p + SpaceRun(t, p)
        IN  q <= Len(t) /\ IsDigit(t[q])}

\* The rest of the generic pattern once group 1 (k characters from s) and
\* group 2 (d digits from p2) are fixed: \s*(本|個|g|グラム)?
GenericCapture(t, s, k, p2, d) ==
    [matched |-> TRUE,
     m1 |-> SubSeq(t, s, s + k - 1),
     m2 |-> SubSeq(t, p2, p2 + d - 1),
     m3 |-> OptionalToken(t, p2 + d + SpaceRun(t, p2 + d), <<U_hon, U_ko, U_g, U_gram>>)]

\* /([A-Z0-9]{2,})\s*(\d+)\s*(本|個|g|グラム)?/i tried at start position s:
\* group 1 is the longest of the admissible lengths, and (\d+), greedy, keeps
\* the whole run of digits since nothing after it can fail
GenericMatchAt(t, s) ==
    LET k == Max(GenericCodeLens(t, s))
        p2 == s + k + SpaceRun(t, s + k)
    IN  IF GenericCodeLens(t, s) = {} THEN NoMatch
        ELSE GenericCapture(t, s, k, p2, DigitRun(t, p2))

GenericMatch(t) ==
    LET starts == {s \in 1..Len(t) : GenericMatchAt(t, s).matched}
    IN  IF starts = {} THEN NoMatch ELSE GenericMatchAt(t, Min(starts))

\* The length of the product-line name matched at s, 0 when there is none
ProductLineNameLen(t, s) ==
    LET names == <<N_quolineKana, N_QuoLine, N_quoline>>
        hit == {n \in 1..Len(names) : MatchIC(t, s, names[n])}
    IN  IF hit = {} THEN 0 ELSE Len(names[Min(hit)])

\* The lengths j of group 2, counted from p1, after which \s*(\d+) can match
ProductLineFirstLens(t, p1) ==
    {j \in 1..DigitRun(t, p1) :
        LET q == p1 + j + SpaceRun(t, p1 + j)
        IN  q <= Len(t) /\ IsDigit(t[q])}

\* The rest of the product-line pattern once the name (n characters from
\* s), group 2 (j digits from p1) and group 3 (d digits from p2) are fixed:
\* \s*(本|個)?
ProductLineCapture(t, s, n, p1, j, p2, d) ==
    [matched |-> TRUE,
     m1 |-> SubSeq(t, s, s + n - 1),
     m2 |-> SubSeq(t, p1, p1 + j - 1),
     m3 |-> SubSeq(t, p2, p2 + d - 1),
     m4 |-> OptionalToken(t, p2 + d + SpaceRun(t, p2 + d), <<U_hon, U_ko>>)]

\* (\d+) at p1: group 2 is the longest of the admissible lengths, and the
\* second (\d+), greedy, keeps the whole run of digits after \s*
ProductLineFirst(t, s, n, p1) ==
    LET j == Max(ProductLineFirstLens(t, p1))
        p2 == p1 + j + SpaceRun(t, p1 + j)
    IN  IF ProductLineFirstLens(t, p1) = {} THEN NoMatch
        ELSE ProductLineCapture(t, s, n, p1, j, p2, DigitRun(t, p2))

\* The name at s, then \s*
ProductLineName(t, s, n) ==
    IF n = 0 THEN NoMatch
    ELSE ProductLineFirst(t, s, n, s + n + SpaceRun(t, s + n))

\* /(クオライン|QuoLine|quoline)\s*(\d+)\s*(\d+)\s*(本|個)?/i tried at start s
ProductLineMatchAt(t, s) == ProductLineName(t, s, ProductLineNameLen(t, s))

ProductLineMatch(t) ==
    LET starts == {s \in 1..Len(t) : ProductLineMatchAt(t, s).matched}
    IN  IF starts = {} THEN NoMatch ELSE ProductLineMatchAt(t, Min(starts))

(***************************************************************************)
(* parseInt on a string of decimal digits.  The result is a Number: the    *)
(* value itself up to 2147483647, written as an integer; beyond that the   *)
(* double nearest to the value, ties to the even mantissa, written as      *)
(* [tag |-> "number", decimal |-> its digits], or [tag |-> "Infinity"];    *)
(* of the empty string it is NaN.  The digits are handled as the strings   *)
(* they are.                                                               *)
(***************************************************************************)
\* The digits without the leading zeros
StripZeros(ds) ==
    IF \A j \in 1..Len(ds) : ds[j] = 48 THEN <<>>
    ELSE SubSeq(ds, Min({j \in 1..Len(ds) : ds[j] # 48}), Len(ds))

\* a < b, for two strings of digits without leading zeros
DigitsLess(a, b) ==
    \/ Len(a) < Len(b)
    \/ /\ Len(a) = Len(b)
       /\ \E j \in 1..Len(a) :
             a[j] < b[j] /\ \A k \in 1..(j - 1) : a[k] = b[k]

\* The value of a string of digits that is at most 2147483647
RECURSIVE SmallValue(_)
SmallValue(ds) ==
    IF ds = <<>> THEN 0
    ELSE 10 * SmallValue(SubSeq(ds, 1, Len(ds) - 1)) + (ds[Len(ds)] - 48)

\* The digits of half the value, rounded down: each digit takes ten from the
\* digit before it when that one is odd
Half(ds) ==
    StripZeros([j \in 1..Len(ds) |->
        48 + ((10 * (IF j = 1 THEN 0 ELSE (ds[j - 1] - 48) % 2) + ds[j] - 48) \div 2)])

\* The digits of twice the value: each digit takes the carry of the digit
\* after it, which is 1 when that one is 5 or more
Twice(ds) ==
    (IF ds # <<>> /\ ds[1] >= 53 THEN <<49>> ELSE <<>>)
    \o [j \in 1..Len(ds) |->
          48 + ((2 * (ds[j] - 48)
                   + (IF j < Len(ds) /\ ds[j + 1] >= 53 THEN 1 ELSE 0)) % 10)]

\* The digits of the value plus one
Succ(ds) ==
    IF \A j \in 1..Len(ds) : ds[j] = 57
    THEN <<49>> \o [j \in 1..Len(ds) |-> 48]
    ELSE [j \in 1..Len(ds) |->
            IF j < Max({k \in 1..Len(ds) : ds[k] # 57}) THEN ds[j]
            ELSE IF j = Max({k \in 1..Len(ds) : ds[k] # 57}) THEN ds[j] + 1
            ELSE 48]

\* The digits of the value times 2^e, 64 doublings at a time
TimesPowerOfTwo(ds, e) ==
    LET twice8[x \in Seq(48..57)] ==
            Twice(Twice(Twice(Twice(Twice(Twice(Twice(Twice(x))))))))
        twice64[x \in Seq(48..57)] ==
            twice8[twice8[twice8[twice8[twice8[twice8[twice8[twice8[x]]]]]]]]
        times[x \in [ds : Seq(48..57), e : Nat]] ==
            IF x.e = 0 THEN x.ds
            ELSE IF x.e >= 64 THEN times[[ds |-> twice64[x.ds], e |-> x.e - 64]]
            ELSE times[[ds |-> Twice(x.ds), e |-> x.e - 1]]
    IN  times[[ds |-> ds, e |-> e]]

\* 2^31 = 2147483648
TwoTo31 == <<50, 49, 52, 55, 52, 56, 51, 54, 52, 56>>

\* 2^53 = 9007199254740992
TwoTo53 == <<57, 48, 48, 55, 49, 57, 57, 50, 53, 52, 55, 52, 48, 57, 57, 50>>

\* The value is halved until it fits the 53 bits of a mantissa, 64 halvings
\* at a time while it is 2^117 or more: e counts the halvings, guard is the
\* last bit dropped, sticky says whether a bit dropped before it was 1
Mantissa(ds) ==
    LET \* 2^117 = 2^53 * 2^64
        twoTo117 ==
            <<49, 54, 54, 49, 53, 51, 52, 57, 57, 52, 55, 51, 49, 49, 52, 52,
              56, 52, 49, 49, 50, 57, 55, 53, 56, 56, 50, 53, 51, 53, 48, 52,
              51, 48, 55, 50>>
        Steps == [m : Seq(48..57), e : Nat, guard : 0..1, sticky : BOOLEAN]
        half[x \in Steps] ==
            [m |-> Half(x.m), e |-> x.e + 1,
             guard |-> (x.m[Len(x.m)] - 48) % 2,
             sticky |-> x.sticky \/ x.guard = 1]
        half8[x \in Steps] == half[half[half[half[half[half[half[half[x]]]]]]]]
        half64[x \in Steps] ==
            half8[half8[half8[half8[half8[half8[half8[half8[x]]]]]]]]
        coarse[x \in Steps] ==
            IF DigitsLess(x.m, twoTo117) THEN x ELSE coarse[half64[x]]
        fine[x \in Steps] ==
            IF DigitsLess(x.m, TwoTo53) THEN x ELSE fine[half[x]]
    IN  fine[coarse[[m |-> ds, e |-> 0, guard |-> 0, sticky |-> FALSE]]]

\* Round to nearest, ties to even; beyond (2^53 - 1) * 2^971 lies Infinity
RoundedDouble(x) ==
    LET odd == (x.m[Len(x.m)] - 48) % 2 = 1
        m == IF x.guard = 1 /\ (x.sticky \/ odd) THEN Succ(x.m) ELSE x.m
    IN  IF x.e > 971 \/ (x.e = 971 /\ m = TwoTo53)
        THEN [tag |-> "Infinity"]
        ELSE [tag |-> "number", decimal |-> TimesPowerOfTwo(m, x.e)]

\* The longest finite double has 309 digits
parseInt(ds) ==
    IF ds = <<>> THEN [tag |-> "NaN"]
    ELSE IF DigitsLess(StripZeros(ds), TwoTo31) THEN SmallValue(StripZeros(ds))
    ELSE IF Len(StripZeros(ds)) > 309 THEN [tag |-> "Infinity"]
    ELSE RoundedDouble(Mantissa(StripZeros(ds)))

\* PriorityOf looking for the word at the start of the text only
PriorityOf_LeadingOnly(text) ==
    IF StartsWith(text, W_shikyu) \/ StartsWith(text, W_kinkyu)
    THEN "urgent" ELSE "normal"

\* /至急|緊急/.test(text)
PriorityOf(text) ==
    IF Includes(text, W_shikyu) \/ Includes(text, W_kinkyu)
    THEN "urgent" ELSE "normal"

\* specified ? (/g|グラム/i.test(specified) ? 'g' : '本') : standard
UnitOf(specified, productCode) ==
    IF specified # <<>>
    THEN IF \E p \in 1..Len(specified) :
               MatchIC(specified, p, U_g) \/ MatchIC(specified, p, U_gram)
         THEN U_g ELSE U_hon
    ELSE getProductUnit(productCode)

(***************************************************************************)
(* parseInventoryRequest.  The argument is a string, null or undefined:    *)
(* [tag |-> "string", s |-> <<...>>], [tag |-> "null", s |-> <<>>] or      *)
(* [tag |-> "undefined", s |-> <<>>].                                      *)
(***************************************************************************)
Null == [tag |-> "null"]

GenericResult(m, raw, text) ==
    [tag |-> "request",
     productCode |-> toUpperCase(m.m1),
     quantity |-> parseInt(m.m2),
     unit |-> UnitOf(m.m3, toUpperCase(m.m1)),
     originalText |-> raw,
     priority |-> PriorityOf(text)]

\* ProductLineResult with the two digit groups joined as the code
ProductLineResult_DigitsJoined(m, raw, text) ==
    [tag |-> "request",
     productCode |-> m.m2 \o m.m3,
     quantity |-> parseInt(m.m3),
     unit |-> U_hon,
     originalText |-> raw,
     priority |-> PriorityOf(text)]

ProductLineResult(m, raw, text) ==
    [tag |-> "request",
     productCode |-> m.m1 \o <<95>> \o m.m2,
     quantity |-> parseInt(m.m3),
     unit |-> U_hon,
     originalText |-> raw,
     priority |-> PriorityOf(text)]

\* parseInventoryRequest trying the product-line pattern first
parseInventoryRequest_ProductLineFirst(in) ==
    LET raw == IF in.tag = "string" THEN in.s ELSE <<>>
        text == normalizeText(raw)
    IN  IF ~hasTrigger(text) THEN Null
        ELSE LET m2 == ProductLineMatch(text)
             IN  IF m2.matched THEN ProductLineResult(m2, raw, text)
                 ELSE LET m == GenericMatch(text)
                      IN  IF m.matched THEN GenericResult(m, raw, text)
                          ELSE Null

parseInventoryRequest(in) ==
    LET raw == IF in.tag = "string" THEN in.s ELSE <<>>
        text == normalizeText(raw)
    IN  IF ~hasTrigger(text) THEN Null
        ELSE LET m == GenericMatch(text)
             IN  IF m.matched THEN GenericResult(m, raw, text)
                 ELSE LET m2 == ProductLineMatch(text)
                      IN  IF m2.matched THEN ProductLineResult(m2, raw, text)
                          ELSE Null

(***************************************************************************)
(* The calls of parseInventoryRequest: every text made by concatenating at  *)
(* most MaxPieces of the pieces below, the examples the source and its help *)
(* reply give, and the null and undefined arguments.                        *)
(***************************************************************************)
Pieces ==
    { W_hoshiiKanji,      \* 欲しい
      W_shikyu,           \* 至急
      N_quolineKana,      \* クオライン
      N_QuoLine,          \* QuoLine
      <<53>>,             \* 5
      <<65298>>,          \* full-width 2
      <<78>>,             \* N
      <<103>>,            \* g
      <<32>>,             \* space
      <<12288>>,          \* full-width space
      U_hon,              \* 本
      U_gram }            \* グラム

\* The concatenation of a sequence of pieces
RECURSIVE Concat(_)
Concat(ps) ==
    IF Len(ps) = 0 THEN <<>>
    ELSE Concat(SubSeq(ps, 1, Len(ps) - 1)) \o ps[Len(ps)]

\* 5NN 2本 欲しい
Ex_5NN == <<53, 78, 78, 32, 50>> \o U_hon \o <<32>> \o W_hoshiiKanji

\* クオライン80 3本 お願い
Ex_QuoLine80 ==
    N_quolineKana \o <<56, 48, 32, 51>> \o U_hon \o <<32>> \o W_onegai

\* The examples of the help text and of the comments, and quantities of ten
\* and of sixteen digits
SampleTexts ==
    {Ex_5NN,
     Ex_QuoLine80,
     \* GR13 1本 欲しい
     <<71, 82, 49, 51, 32, 49>> \o U_hon \o <<32>> \o W_hoshiiKanji,
     \* 至急GR13 1本欲しい
     W_shikyu \o <<71, 82, 49, 51, 32, 49>> \o U_hon \o W_hoshiiKanji,
     \* 5NN 2G ください
     <<53, 78, 78, 32, 50, 71, 32>> \o W_kudasai,
     \* クオライン8 12個 緊急
     N_quolineKana \o <<56, 32, 49, 50>> \o U_ko \o <<32>> \o W_kinkyu,
     \* 5NN 2147483648本 欲しい: 2^31
     <<53, 78, 78, 32>> \o TwoTo31 \o U_hon \o <<32>> \o W_hoshiiKanji,
     \* 5NN 9007199254740993本 欲しい: 2^53 + 1
     <<53, 78, 78, 32>> \o SubSeq(TwoTo53, 1, 15) \o <<51>> \o U_hon
       \o <<32>> \o W_hoshiiKanji}

Idle == [tag |-> "idle"]

InitParse ==
    /\ pc = "call"
    /\ \/ \E n \in 0..MaxPieces : \E ps \in [1..n -> Pieces] :
             input = [tag |-> "string", s |-> Concat(ps)]
       \/ \E t \in SampleTexts : input = [tag |-> "string", s |-> t]
       \/ input \in {[tag |-> "null", s |-> <<>>],
                     [tag |-> "undefined", s |-> <<>>]}
    /\ result = Idle
    /\ catArgs = Idle /\ cat = Idle /\ env = Idle /\ req = Idle
    /\ idx = 0 /\ calls = <<>> /\ sent = <<>> /\ running = 0

CallParse ==
    /\ pc = "call"
    /\ result' = parseInventoryRequest(input)
    /\ pc' = "returned"
    /\ UNCHANGED <<input, catArgs, cat, env, req, idx, calls, sent, running>>

NextParse == CallParse

SpecParse == InitParse /\ [][NextParse]_vars

(***************************************************************************)
(* detectCategory.  Each argument is a string, null or undefined, tagged as *)
(* the argument of parseInventoryRequest is.                                *)
(***************************************************************************)
W_shukumo == <<32302, 27611>>                              \* 縮毛
W_straight == <<12473, 12488, 12524, 12540, 12488>>        \* ストレート
W_treatmentKana ==
    <<12488, 12522, 12540, 12488, 12513, 12531, 12488>>    \* トリートメント
W_treatment == <<116, 114, 101, 97, 116, 109, 101, 110, 116>>   \* treatment
W_repairKana == <<12522, 12506, 12450>>                    \* リペア
W_repair == <<114, 101, 112, 97, 105, 114>>                \* repair

\* /^(\d{1,2}[a-z]{1,3})/.test(code)
ColorPrefix(code) ==
    \E n \in 1..2 :
        /\ Len(code) > n
        /\ \A j \in 1..n : IsDigit(code[j])
        /\ code[n + 1] \in 97..122

\* /(gr|sb|be|mt|ash)/.test(code)
ColorFamily(code) ==
    \E w \in {<<103, 114>>, <<115, 98>>, <<98, 101>>, <<109, 116>>, <<97, 115, 104>>} :
        Includes(code, w)

\* /クオライン|quoline|縮毛|ストレート/.test(t)
StraighteningText(t) ==
    \/ Includes(t, N_quolineKana) \/ Includes(t, N_quoline)
    \/ Includes(t, W_shukumo) \/ Includes(t, W_straight)

\* /トリートメント|treatment|リペア|repair/.test(t)
TreatmentText(t) ==
    \/ Includes(t, W_treatmentKana) \/ Includes(t, W_treatment)
    \/ Includes(t, W_repairKana) \/ Includes(t, W_repair)

\* detectCategory looking at the text before the product code
detectCategory_TextFirst(productCode, text) ==
    LET t == toLowerCase(IF text.tag = "string" THEN text.s ELSE <<>>)
        code == toLowerCase(IF productCode.tag = "string" THEN productCode.s ELSE <<>>)
    IN  IF StraighteningText(t)
        THEN [category |-> "straightening", type |-> "chemical"]
        ELSE IF TreatmentText(t)
        THEN [category |-> "treatment", type |-> "treatment"]
        ELSE IF ColorPrefix(code) \/ ColorFamily(code)
        THEN [category |-> "color", type |-> "color"]
        ELSE [category |-> "other", type |-> "other"]

detectCategory(productCode, text) ==
    LET t == toLowerCase(IF text.tag = "string" THEN text.s ELSE <<>>)
        code == toLowerCase(IF productCode.tag = "string" THEN productCode.s ELSE <<>>)
    IN  IF ColorPrefix(code) \/ ColorFamily(code)
        THEN [category |-> "color", type |-> "color"]
        ELSE IF StraighteningText(t)
        THEN [category |-> "straightening", type |-> "chemical"]
        ELSE IF TreatmentText(t)
        THEN [category |-> "treatment", type |-> "treatment"]
        ELSE [category |-> "other", type |-> "other"]

(***************************************************************************)
(* The calls of detectCategory: every product code of at most MaxCodeLen    *)
(* of the characters below, with each of the texts below.                   *)
(***************************************************************************)
\* 5 N G r a s h b e m t, the Kelvin sign, whose lower case is k, and the
\* capital sigma, whose lower case depends on the letters around it
CodeChars == {53, 78, 71, 114, 97, 115, 104, 98, 101, 109, 116, 8490, 931}

W_konnichiwa == <<12371, 12435, 12395, 12385, 12399>>      \* こんにちは

CategoryTexts ==
    { <<>>,
      W_konnichiwa,
      W_shukumo \o <<30703, 27491>>,                       \* 縮毛矯正
      N_quolineKana \o <<56, 48>>,                         \* クオライン80
      N_QuoLine,                                           \* QuoLine
      W_straight,                                          \* ストレート
      W_treatmentKana,                                     \* トリートメント
      <<84>> \o SubSeq(W_treatment, 2, 9),                 \* Treatment
      W_repairKana,                                        \* リペア
      <<82, 69, 80, 65, 73, 82>>,                          \* REPAIR
      W_straight \o W_treatmentKana,                       \* ストレートトリートメント
      W_repairKana \o W_shukumo }                          \* リペア縮毛

\* A string, or null or undefined in its place
Arg(s) == [tag |-> "string", s |-> s]

Missing == {[tag |-> "null", s |-> <<>>], [tag |-> "undefined", s |-> <<>>]}

InitCat ==
    /\ pc = "call"
    /\ \E n \in 0..MaxCodeLen : \E c \in [1..n -> CodeChars] :
          \/ \E t \in CategoryTexts : catArgs = [productCode |-> Arg(c), text |-> Arg(t)]
          \/ \E x \in Missing : catArgs = [productCode |-> Arg(c), text |-> x]
          \/ \E x \in Missing : \E t \in CategoryTexts :
                n = 0 /\ catArgs = [productCode |-> x, text |-> Arg(t)]
    /\ cat = Idle
    /\ input = Idle /\ result = Idle /\ env = Idle /\ req = Idle
    /\ idx = 0 /\ calls = <<>> /\ sent = <<>> /\ running = 0

CallDetectCategory ==
    /\ pc = "call"
    /\ cat' = detectCategory(catArgs.productCode, catArgs.text)
    /\ pc' = "returned"
    /\ UNCHANGED <<input, result, catArgs, env, req, idx, calls, sent, running>>

NextCat == CallDetectCategory

SpecCat == InitCat /\ [][NextCat]_vars

(***************************************************************************)
(* new RegExp('^' + REQUIRED_PREFIX): the prefix is read as the source of  *)
(* a regular expression, without flags.  The source is parsed into nodes:  *)
(*   [t |-> "class", neg, items]  one character of a set; a literal is     *)
(*                                the set of one character                 *)
(*   [t |-> "dot"]                any character but a line terminator      *)
(*   [t |-> "bol"], [t |-> "eol"] ^ and $                                  *)
(*   [t |-> "wordb", neg]         \b and \B                                *)
(*   [t |-> "group", alts]        ( ) and (?: ), alts the alternatives,    *)
(*                                each a sequence of nodes                 *)
(*   [t |-> "look", neg, alts]    (?= ) and (?! )                          *)
(*   [t |-> "quant", node, min, max, greedy]   max = -1 for no limit       *)
(* A source the constructor rejects gives [tag |-> "SyntaxError"].  Back   *)
(* references, octal escapes, named groups and lookbehind are not          *)
(* modelled: a source that uses one gives [tag |-> "unsupported"].         *)
(***************************************************************************)
SyntaxError == [tag |-> "SyntaxError"]

Parsed(node, i) == [tag |-> "ok", node |-> node, i |-> i]

Item(k, lo, hi) == [k |-> k, lo |-> lo, hi |-> hi]

Literal(c) == [t |-> "class", neg |-> FALSE, items |-> <<Item("range", c, c)>>]

\* \w
IsWordChar(c) == IsAlnum(c) \/ c = 95

IsHexDigit(c) == c \in 48..57 \/ c \in 65..70 \/ c \in 97..102

HexValue(c) ==
    IF c \in 48..57 THEN c - 48 ELSE IF c \in 65..70 THEN c - 55 ELSE c - 87

\* The number a quantifier spells, no more than 2147483647
Count(ds) ==
    IF DigitsLess(StripZeros(ds), TwoTo31) THEN SmallValue(StripZeros(ds))
    ELSE 2147483647

\* {n}, {n,} or {n,m} at position i, where p[i] is the brace; anything else
\* is no quantifier
BraceQuantifier(p, i) ==
    LET d1 == DigitRun(p, i + 1)
        j == i + 1 + d1
        d2 == DigitRun(p, j + 1)
        k == j + 1 + d2
        n == Count(SubSeq(p, i + 1, j - 1))
        m == Count(SubSeq(p, j + 1, k - 1))
    IN  IF d1 = 0 \/ j > Len(p) THEN [tag |-> "none"]
        ELSE IF p[j] = 125 THEN [tag |-> "quant", min |-> n, max |-> n, i |-> j + 1]
        ELSE IF p[j] # 44 \/ k > Len(p) \/ p[k] # 125 THEN [tag |-> "none"]
        ELSE IF d2 = 0 THEN [tag |-> "quant", min |-> n, max |-> -1, i |-> k + 1]
        ELSE IF m < n THEN SyntaxError
        ELSE [tag |-> "quant", min |-> n, max |-> m, i |-> k + 1]

\* The quantifier at position i, if any
QuantifierAt(p, i) ==
    IF i > Len(p) THEN [tag |-> "none"]
    ELSE IF p[i] = 42 THEN [tag |-> "quant", min |-> 0, max |-> -1, i |-> i + 1]
    ELSE IF p[i] = 43 THEN [tag |-> "quant", min |-> 1, max |-> -1, i |-> i + 1]
    ELSE IF p[i] = 63 THEN [tag |-> "quant", min |-> 0, max |-> 1, i |-> i + 1]
    ELSE IF p[i] = 123 THEN BraceQuantifier(p, i)
    ELSE [tag |-> "none"]

\* node with the quantifier q; a ? after the quantifier makes it lazy
WithQuantifier(p, node, i, q) ==
    IF q.tag = "none" THEN Parsed(node, i)
    ELSE IF q.tag = "SyntaxError" THEN SyntaxError
    ELSE IF q.i <= Len(p) /\ p[q.i] = 63
    THEN Parsed([t |-> "quant", node |-> node, min |-> q.min, max |-> q.max,
                 greedy |-> FALSE], q.i + 1)
    ELSE Parsed([t |-> "quant", node |-> node, min |-> q.min, max |-> q.max,
                 greedy |-> TRUE], q.i)

\* The atom that ends before position i, with the quantifier that follows it
Quantified(p, node, i) == WithQuantifier(p, node, i, QuantifierAt(p, i))

\* The escape at position i, where p[i] is the backslash and is not the last
\* character, as an item of a set
Escape(p, i, inClass) ==
    LET e == p[i + 1]
        n == Len(p)
    IN  IF e \in {100, 68, 119, 87, 115, 83}
        THEN Parsed(Item("escape", e, e), i + 2)      \* \d \D \w \W \s \S
        ELSE IF e = 116 THEN Parsed(Item("range", 9, 9), i + 2)      \* \t
        ELSE IF e = 110 THEN Parsed(Item("range", 10, 10), i + 2)    \* \n
        ELSE IF e = 118 THEN Parsed(Item("range", 11, 11), i + 2)    \* \v
        ELSE IF e = 102 THEN Parsed(Item("range", 12, 12), i + 2)    \* \f
        ELSE IF e = 114 THEN Parsed(Item("range", 13, 13), i + 2)    \* \r
        ELSE IF e = 48 /\ ~(i + 2 <= n /\ p[i + 2] \in 48..55)
        THEN Parsed(Item("range", 0, 0), i + 2)                      \* \0
        ELSE IF e \in 48..57 THEN [tag |-> "unsupported"]
        ELSE IF e = 120 /\ i + 3 <= n /\ IsHexDigit(p[i + 2]) /\ IsHexDigit(p[i + 3])
        THEN Parsed(Item("range", 16 * HexValue(p[i + 2]) + HexValue(p[i + 3]),
                                      16 * HexValue(p[i + 2]) + HexValue(p[i + 3])),
                        i + 4)                                           \* \xHH
        ELSE IF e = 117 /\ i + 5 <= n /\ \A j \in 2..5 : IsHexDigit(p[i + j])
        THEN Parsed(Item("range",
                             4096 * HexValue(p[i + 2]) + 256 * HexValue(p[i + 3])
                               + 16 * HexValue(p[i + 4]) + HexValue(p[i + 5]),
                             4096 * HexValue(p[i + 2]) + 256 * HexValue(p[i + 3])
                               + 16 * HexValue(p[i + 4]) + HexValue(p[i + 5])),
                        i + 6)                                           \* \uHHHH
        ELSE IF e = 99
        THEN IF i + 2 <= n
                /\ \/ p[i + 2] \in 65..90 \/ p[i + 2] \in 97..122
                   \/ (inClass /\ (p[i + 2] \in 48..57 \/ p[i + 2] = 95))
             THEN Parsed(Item("range", p[i + 2] % 32, p[i + 2] % 32), i + 3)
             ELSE Parsed(Item("range", 92, 92), i + 1)   \* the backslash itself
        ELSE Parsed(Item("range", e, e), i + 2)          \* the character itself

\* One member of a set, at position j
ClassAtom(p, j) ==
    IF p[j] # 92 THEN Parsed(Item("range", p[j], p[j]), j + 1)
    ELSE IF j = Len(p) THEN SyntaxError
    ELSE IF p[j + 1] = 98 THEN Parsed(Item("range", 8, 8), j + 2)    \* \b
    ELSE Escape(p, j, TRUE)

RECURSIVE ClassItems(_, _, _)

\* a-b in a set: a range of characters, or the three members a, - and b when
\* a or b is itself a set
ClassRange(p, a, b, items) ==
    IF b.tag # "ok" THEN b
    ELSE IF a.k # "range" \/ b.node.k # "range"
    THEN ClassItems(p, b.i, items \o <<a, Item("range", 45, 45), b.node>>)
    ELSE IF a.lo > b.node.lo THEN SyntaxError
    ELSE ClassItems(p, b.i, Append(items, Item("range", a.lo, b.node.lo)))

\* The member a has been read: a - that is not the last character of the set
\* makes it the start of a range
AfterClassAtom(p, a, items) ==
    IF a.tag # "ok" THEN a
    ELSE IF a.i + 1 <= Len(p) /\ p[a.i] = 45 /\ p[a.i + 1] # 93
    THEN ClassRange(p, a.node, ClassAtom(p, a.i + 1), items)
    ELSE ClassItems(p, a.i, Append(items, a.node))

\* The members of a set from position j up to the closing bracket
ClassItems(p, j, items) ==
    IF j > Len(p) THEN SyntaxError
    ELSE IF p[j] = 93 THEN [tag |-> "ok", items |-> items, i |-> j + 1]
    ELSE AfterClassAtom(p, ClassAtom(p, j), items)

\* The set whose members r have been read
CloseClass(p, neg, r) ==
    IF r.tag # "ok" THEN r
    ELSE Quantified(p, [t |-> "class", neg |-> neg, items |-> r.items], r.i)

\* [...] or [^...] at position i
ParseClass(p, i) ==
    IF i + 1 <= Len(p) /\ p[i + 1] = 94
    THEN CloseClass(p, TRUE, ClassItems(p, i + 2, <<>>))
    ELSE CloseClass(p, FALSE, ClassItems(p, i + 1, <<>>))

\* The escape e has been read outside a set
AfterEscape(p, e) ==
    IF e.tag # "ok" THEN e
    ELSE Quantified(p, [t |-> "class", neg |-> FALSE, items |-> <<e.node>>],
                    e.i)

\* A backslash outside a set, at position i
ParseAtomEscape(p, i) ==
    IF i = Len(p) THEN SyntaxError
    ELSE IF p[i + 1] = 98 THEN Parsed([t |-> "wordb", neg |-> FALSE], i + 2)
    ELSE IF p[i + 1] = 66 THEN Parsed([t |-> "wordb", neg |-> TRUE], i + 2)
    ELSE AfterEscape(p, Escape(p, i, FALSE))

\* What the parenthesis at position i opens
GroupKind(p, i) ==
    IF ~(i + 1 <= Len(p) /\ p[i + 1] = 63) THEN "capture"
    ELSE IF i + 2 > Len(p) THEN "invalid"
    ELSE IF p[i + 2] = 58 THEN "group"
    ELSE IF p[i + 2] = 61 THEN "lookahead"
    ELSE IF p[i + 2] = 33 THEN "negative lookahead"
    ELSE IF p[i + 2] = 60 THEN "unsupported"
    ELSE "invalid"

\* The group of the given kind whose alternatives d have been parsed: d stops
\* at the closing parenthesis or at the end of the source
CloseGroup(p, kind, d) ==
    IF d.tag # "ok" THEN d
    ELSE IF d.i > Len(p) THEN SyntaxError
    ELSE IF kind \in {"lookahead", "negative lookahead"}
    THEN Quantified(p, [t |-> "look", neg |-> kind = "negative lookahead",
                        alts |-> d.alts], d.i + 1)
    ELSE Quantified(p, [t |-> "group", alts |-> d.alts], d.i + 1)

RECURSIVE ParseDisjunction(_, _, _)

\* The group of the given kind that the parenthesis at position i opens
OpenGroup(p, i, kind) ==
    IF kind = "invalid" THEN SyntaxError
    ELSE IF kind = "unsupported" THEN [tag |-> "unsupported"]
    ELSE IF kind = "capture"
    THEN CloseGroup(p, kind, ParseDisjunction(p, i + 1, <<>>))
    ELSE CloseGroup(p, kind, ParseDisjunction(p, i + 3, <<>>))

\* One term at position i: an assertion, or an atom with its quantifier
ParseTerm(p, i) ==
    IF p[i] = 94 THEN Parsed([t |-> "bol"], i + 1)
    ELSE IF p[i] = 36 THEN Parsed([t |-> "eol"], i + 1)
    ELSE IF p[i] \in {42, 43, 63} THEN SyntaxError          \* nothing to repeat
    ELSE IF p[i] = 123
    THEN IF BraceQuantifier(p, i).tag # "none" THEN SyntaxError
         ELSE Quantified(p, Literal(123), i + 1)
    ELSE IF p[i] = 40 THEN OpenGroup(p, i, GroupKind(p, i))
    ELSE IF p[i] = 91 THEN ParseClass(p, i)
    ELSE IF p[i] = 92 THEN ParseAtomEscape(p, i)
    ELSE IF p[i] = 46 THEN Quantified(p, [t |-> "dot"], i + 1)
    ELSE Quantified(p, Literal(p[i]), i + 1)

RECURSIVE ParseAlternative(_, _, _)

\* The term x has been read
AfterTerm(p, x, nodes) ==
    IF x.tag # "ok" THEN x
    ELSE ParseAlternative(p, x.i, Append(nodes, x.node))

\* The terms from position i up to a |, a ) or the end of the source
ParseAlternative(p, i, nodes) ==
    IF i > Len(p) \/ p[i] \in {124, 41}
    THEN [tag |-> "ok", nodes |-> nodes, i |-> i]
    ELSE AfterTerm(p, ParseTerm(p, i), nodes)

\* The alternative a has been read
AfterAlternative(p, a, alts) ==
    IF a.tag # "ok" THEN a
    ELSE IF a.i <= Len(p) /\ p[a.i] = 124
    THEN ParseDisjunction(p, a.i + 1, Append(alts, a.nodes))
    ELSE [tag |-> "ok", alts |-> Append(alts, a.nodes), i |-> a.i]

\* The alternatives from position i up to a ) or the end of the source
ParseDisjunction(p, i, alts) ==
    AfterAlternative(p, ParseAlternative(p, i, <<>>), alts)

\* The whole source: a ) that closes nothing is an error
WholePattern(source, d) ==
    IF d.tag # "ok" THEN d
    ELSE IF d.i <= Len(source) THEN SyntaxError
    ELSE [tag |-> "regexp", alts |-> d.alts]

\* new RegExp(source)
RegExp(source) == WholePattern(source, ParseDisjunction(source, 1, <<>>))

(***************************************************************************)
(* Matching.  Match(t, k, p) matches the nodes of k, in order, against t   *)
(* from its character p + 1 on and gives the position after the match, or  *)
(* -1 when there is none.  The choices are tried in the order of the       *)
(* source: the alternatives from left to right, a greedy quantifier with   *)
(* one more repetition first, a lazy one with one more repetition last.    *)
(***************************************************************************)
ItemHas(item, c) ==
    IF item.k = "range" THEN item.lo <= c /\ c <= item.hi
    ELSE CASE item.lo = 100 -> IsDigit(c)         \* \d
           [] item.lo = 68 -> ~IsDigit(c)         \* \D
           [] item.lo = 119 -> IsWordChar(c)      \* \w
           [] item.lo = 87 -> ~IsWordChar(c)      \* \W
           [] item.lo = 115 -> IsSpace(c)         \* \s
           [] item.lo = 83 -> ~IsSpace(c)         \* \S

ClassHas(node, c) ==
    (\E n \in 1..Len(node.items) : ItemHas(node.items[n], c)) # node.neg

\* r, or other when r is no match
OrElse(r, other) == IF r # -1 THEN r ELSE other

\* The quantifier once one more repetition is done
Again(n) ==
    [n EXCEPT !.min = IF n.min > 0 THEN n.min - 1 ELSE 0,
              !.max = IF n.max = -1 THEN -1 ELSE n.max - 1]

RECURSIVE Match(_, _, _)

RECURSIVE MatchAlternatives(_, _, _, _, _)
MatchAlternatives(t, alts, j, rest, p) ==
    IF j > Len(alts) THEN -1
    ELSE OrElse(Match(t, alts[j] \o rest, p),
                MatchAlternatives(t, alts, j + 1, rest, p))

MatchQuantifier(t, n, rest, p) ==
    IF n.max = 0 THEN Match(t, rest, p)
    ELSE IF n.min > 0 THEN Match(t, <<n.node, Again(n)>> \o rest, p)
    ELSE IF n.greedy
    THEN OrElse(Match(t, <<n.node, [t |-> "progress", from |-> p], Again(n)>> \o rest, p),
                Match(t, rest, p))
    ELSE OrElse(Match(t, rest, p),
                Match(t, <<n.node, [t |-> "progress", from |-> p], Again(n)>> \o rest, p))

Match(t, k, p) ==
    IF k = <<>> THEN p
    ELSE CASE Head(k).t = "class" ->
                IF p < Len(t) /\ ClassHas(Head(k), t[p + 1])
                THEN Match(t, Tail(k), p + 1) ELSE -1
           [] Head(k).t = "dot" ->
                IF p < Len(t) /\ t[p + 1] \notin {10, 13, 8232, 8233}
                THEN Match(t, Tail(k), p + 1) ELSE -1
           [] Head(k).t = "bol" -> IF p = 0 THEN Match(t, Tail(k), p) ELSE -1
           [] Head(k).t = "eol" -> IF p = Len(t) THEN Match(t, Tail(k), p) ELSE -1
           [] Head(k).t = "wordb" ->
                \* \b: a word character on one side only
                IF ((p > 0 /\ IsWordChar(t[p]))
                      # (p < Len(t) /\ IsWordChar(t[p + 1]))) # Head(k).neg
                THEN Match(t, Tail(k), p) ELSE -1
           [] Head(k).t = "progress" ->
                IF p = Head(k).from THEN -1 ELSE Match(t, Tail(k), p)
           [] Head(k).t = "group" ->
                MatchAlternatives(t, Head(k).alts, 1, Tail(k), p)
           [] Head(k).t = "look" ->
                IF (MatchAlternatives(t, Head(k).alts, 1, <<>>, p) # -1) # Head(k).neg
                THEN Match(t, Tail(k), p) ELSE -1
           [] Head(k).t = "quant" -> MatchQuantifier(t, Head(k), Tail(k), p)

\* The start positions, counted from 0, at which the expression matches
MatchStarts(t, re) ==
    {s \in 0..Len(t) : MatchAlternatives(t, re.alts, 1, <<>>, s) # -1}

\* String.prototype.replace(re, ''): the first match, the leftmost one, is
\* taken out of t
ReplaceFirst(t, re) ==
    IF MatchStarts(t, re) = {} THEN t
    ELSE SubSeq(t, 1, Min(MatchStarts(t, re)))
           \o SubSeq(t, MatchAlternatives(t, re.alts, 1, <<>>,
                                          Min(MatchStarts(t, re))) + 1, Len(t))

(***************************************************************************)
(* The handler.                                                            *)
(*                                                                         *)
(* env: the three environment variables, each a string, the empty string   *)
(* when unset (the code only tests them for truthiness).                   *)
(* req: [method, body], body being undefined, an object without events, an *)
(* object whose events is not an array, or an object with an events array. *)
(* An event is null or an object; a field the object lacks is "none" (a    *)
(* type) or <<>> (a string).                                               *)
(*                                                                         *)
(* The handler is an async function, and the platform may call it for a    *)
(* second request while the first one waits for its fetch.  pc, req, idx   *)
(* and sent are functions of the invocation; calls is the one log of the   *)
(* calls the process has issued.  The event loop runs one callback at a    *)
(* time: an invocation, once started or resumed, runs until it awaits a    *)
(* fetch or returns, and only then can another one start or resume.        *)
(***************************************************************************)
W_help == <<104, 101, 108, 112>>                   \* help
W_helpKana == <<12504, 12523, 12503>>              \* ヘルプ
W_zaikoIchiran == <<22312, 24235, 19968, 35239>>   \* 在庫一覧

Invocations == {1, 2}

\* String.prototype.split(','), here on the code unit of the comma
RECURSIVE Split(_)
Split(s) ==
    LET commas == {j \in 1..Len(s) : s[j] = 44}
    IN  IF commas = {} THEN <<s>>
        ELSE LET c == Min(commas)
             IN  <<SubSeq(s, 1, c - 1)>> \o Split(SubSeq(s, c + 1, Len(s)))

\* (process.env.ALLOWED_GROUP_IDS || '').split(',').map(s => s.trim()).filter(Boolean)
ALLOWED_GROUP_IDS(e) ==
    LET parts == Split(e.allowed)
    IN  SelectSeq([j \in 1..Len(parts) |-> Trim(parts[j])], LAMBDA x : x # <<>>)

\* process.env.REQUIRED_PREFIX || ''
REQUIRED_PREFIX(e) == e.prefix

\* event.type === 'message' && event.message?.type === 'text'
IsTextMessage(ev) == ev.type = "message" /\ ev.messageType = "text"

\* IsGroup without the rooms
IsGroup_GroupOnly(ev) == ev.sourceType = "group"

\* event.source?.type === 'group' || event.source?.type === 'room'
IsGroup(ev) == ev.sourceType = "group" \/ ev.sourceType = "room"

\* event.source?.groupId || event.source?.roomId || ''
GroupIdOf(ev) == IF ev.groupId # <<>> THEN ev.groupId ELSE ev.roomId

\* ALLOWED_GROUP_IDS.length && !ALLOWED_GROUP_IDS.includes(groupId), negated
GroupAllowed(e, ev) ==
    LET ids == ALLOWED_GROUP_IDS(e)
    IN  Len(ids) = 0 \/ \E j \in 1..Len(ids) : ids[j] = GroupIdOf(ev)

\* REQUIRED_PREFIX && !normalizeText(text).startsWith(normalizeText(REQUIRED_PREFIX)),
\* negated
PrefixPresent(e, ev) ==
    \/ REQUIRED_PREFIX(e) = <<>>
    \/ StartsWith(normalizeText(ev.text), normalizeText(REQUIRED_PREFIX(e)))

\* new RegExp('^' + REQUIRED_PREFIX)
PrefixPattern(e) == RegExp(<<94>> \o REQUIRED_PREFIX(e))

\* The evaluation of line 173 gives a string
PrefixValid(e) ==
    REQUIRED_PREFIX(e) = <<>> \/ PrefixPattern(e).tag = "regexp"

\* REQUIRED_PREFIX ? text.replace(new RegExp('^' + REQUIRED_PREFIX), '') : text
StrippedText(e, text) ==
    IF REQUIRED_PREFIX(e) # <<>> THEN ReplaceFirst(text, PrefixPattern(e))
    ELSE text

\* The replyMessage of lines 194-205, r being what parseInventoryRequest
\* returned for strippedText
RequestReply(strippedText, r) ==
    IF r # Null
    THEN [kind |-> "confirmation",
          productCode |-> r.productCode,
          quantity |-> r.quantity,
          unit |-> r.unit,
          category |-> detectCategory(
              [tag |-> "string", s |-> r.productCode],
              [tag |-> "string", s |-> strippedText]).category]
    ELSE IF hasTrigger(strippedText)
    THEN [kind |-> "format_error"]
    ELSE [kind |-> "greeting"]

\* The replyMessage chosen for strippedText; listFound says whether
\* getInventoryListFromFiles returned a text (it returns null when the data
\* files are absent or unreadable)
ReplyMessage(strippedText, listFound) ==
    IF strippedText = W_helpKana \/ toLowerCase(strippedText) = W_help
    THEN [kind |-> "help"]
    ELSE IF strippedText = W_zaikoIchiran
    THEN [kind |-> IF listFound THEN "inventory" ELSE "inventory_failure"]
    ELSE RequestReply(strippedText,
             parseInventoryRequest([tag |-> "string", s |-> strippedText]))

\* The guards of the for loop's body, up to the choice of the reply
PassesGuards(e, ev) ==
    /\ IsTextMessage(ev)
    /\ IsGroup(ev)
    /\ GroupAllowed(e, ev)
    /\ PrefixPresent(e, ev)

\* body.events of invocation h
Events(h) == req[h].body.events

\* The event loop is idle and invocation h has not started: its handler is
\* called
Called(h) == running = 0 /\ pc[h] = "request"

\* Invocation h is executing, inside the for loop, and has events left
AtEvent(h) == running = h /\ pc[h] = "loop" /\ idx[h] < Len(Events(h))

\* res.status(code) followed by .end() or .json(...), and the return
Respond(h, code) ==
    /\ sent' = [sent EXCEPT ![h] = Append(@, code)]
    /\ pc' = [pc EXCEPT ![h] = "done"]
    /\ running' = 0

\* The call invocation h is waiting for
Pending(h) ==
    CHOOSE j \in 1..Len(calls) :
        calls[j].handler = h /\ calls[j].outcome = "pending"

\* if (req.method === 'OPTIONS') return res.status(200).end()
Options(h) ==
    /\ Called(h) /\ req[h].method = "OPTIONS"
    /\ Respond(h, 200)
    /\ UNCHANGED <<input, result, catArgs, cat, env, req, idx, calls>>

\* if (req.method === 'GET') return res.status(200).json({ ok: true, ... })
Get(h) ==
    /\ Called(h) /\ req[h].method = "GET"
    /\ Respond(h, 200)
    /\ UNCHANGED <<input, result, catArgs, cat, env, req, idx, calls>>

\* if (req.method !== 'POST') return res.status(405).json(...)
MethodNotAllowed(h) ==
    /\ Called(h) /\ req[h].method \notin {"OPTIONS", "GET", "POST"}
    /\ Respond(h, 405)
    /\ UNCHANGED <<input, result, catArgs, cat, env, req, idx, calls>>

\* PostWithoutEvents answering a missing events array with 400
PostWithoutEvents_BadRequest(h) ==
    /\ Called(h) /\ req[h].method = "POST" /\ req[h].body.tag # "array"
    /\ Respond(h, 400)
    /\ UNCHANGED <<input, result, catArgs, cat, env, req, idx, calls>>

\* if (!Array.isArray(body.events)) return res.status(200).json({ ok: true })
PostWithoutEvents(h) ==
    /\ Called(h) /\ req[h].method = "POST" /\ req[h].body.tag # "array"
    /\ Respond(h, 200)
    /\ UNCHANGED <<input, result, catArgs, cat, env, req, idx, calls>>

\* the for loop is entered
PostBegin(h) ==
    /\ Called(h) /\ req[h].method = "POST" /\ req[h].body.tag = "array"
    /\ pc' = [pc EXCEPT ![h] = "loop"]
    /\ running' = h
    /\ UNCHANGED <<input, result, catArgs, cat, env, req, idx, calls, sent>>

\* event.type on a null element throws a TypeError, caught at the end of
\* the handler: res.status(500).json({ error: e.message })
EventRaises(h) ==
    /\ AtEvent(h)
    /\ Events(h)[idx[h] + 1].isNull
    /\ Respond(h, 500)
    /\ UNCHANGED <<input, result, catArgs, cat, env, req, idx, calls>>

\* the event is no text message, or one of the three guards says continue
SkipEvent(h) ==
    /\ AtEvent(h)
    /\ ~Events(h)[idx[h] + 1].isNull
    /\ ~PassesGuards(env, Events(h)[idx[h] + 1])
    /\ idx' = [idx EXCEPT ![h] = @ + 1]
    /\ UNCHANGED <<pc, input, result, catArgs, cat, env, req, calls, sent, running>>

\* new RegExp('^' + REQUIRED_PREFIX) throws a SyntaxError, caught at the end
\* of the handler: res.status(500).json({ error: e.message })
PrefixRaises(h) ==
    /\ AtEvent(h)
    /\ ~Events(h)[idx[h] + 1].isNull
    /\ PassesGuards(env, Events(h)[idx[h] + 1])
    /\ REQUIRED_PREFIX(env) # <<>> /\ PrefixPattern(env).tag = "SyntaxError"
    /\ Respond(h, 500)
    /\ UNCHANGED <<input, result, catArgs, cat, env, req, idx, calls>>

\* if (replyMessage && token) is false: the message is built and dropped
ComposeWithoutToken(h) ==
    /\ AtEvent(h)
    /\ ~Events(h)[idx[h] + 1].isNull
    /\ PassesGuards(env, Events(h)[idx[h] + 1])
    /\ PrefixValid(env)
    /\ env.token = <<>>
    /\ idx' = [idx EXCEPT ![h] = @ + 1]
    /\ UNCHANGED <<pc, input, result, catArgs, cat, env, req, calls, sent, running>>

\* fetch(...) is called with the message and the handler awaits its result:
\* the event loop is free for other callbacks
Fetch(h) ==
    /\ AtEvent(h)
    /\ ~Events(h)[idx[h] + 1].isNull
    /\ PassesGuards(env, Events(h)[idx[h] + 1])
    /\ PrefixValid(env)
    /\ env.token # <<>>
    /\ \E listFound \in BOOLEAN :
          calls' = Append(calls,
              [handler |-> h,
               event |-> idx[h] + 1,
               message |-> ReplyMessage(StrippedText(env, Events(h)[idx[h] + 1].text), listFound),
               outcome |-> "pending",
               status |-> 0])
    /\ pc' = [pc EXCEPT ![h] = "awaiting"]
    /\ running' = 0
    /\ UNCHANGED <<input, result, catArgs, cat, env, req, idx, sent>>

\* the awaited fetch resolves, with a success status or not:
\* console.log('LINE reply', resp.status), and the loop goes on
Reply(h) ==
    /\ running = 0 /\ pc[h] = "awaiting"
    /\ \E status \in {200, 400} :
          calls' = [calls EXCEPT ![Pending(h)].outcome = "resolved",
                                 ![Pending(h)].status = status]
    /\ idx' = [idx EXCEPT ![h] = @ + 1]
    /\ pc' = [pc EXCEPT ![h] = "loop"]
    /\ running' = h
    /\ UNCHANGED <<input, result, catArgs, cat, env, req, sent>>

\* ReplyRejected with the failure swallowed inside the loop
ReplyRejected_Swallowed(h) ==
    /\ running = 0 /\ pc[h] = "awaiting"
    /\ calls' = [calls EXCEPT ![Pending(h)].outcome = "rejected"]
    /\ idx' = [idx EXCEPT ![h] = @ + 1]
    /\ pc' = [pc EXCEPT ![h] = "loop"]
    /\ running' = h
    /\ UNCHANGED <<input, result, catArgs, cat, env, req, sent>>

\* the awaited fetch rejects (a network failure), caught at the end of the
\* handler: res.status(500).json({ error: e.message })
ReplyRejected(h) ==
    /\ running = 0 /\ pc[h] = "awaiting"
    /\ calls' = [calls EXCEPT ![Pending(h)].outcome = "rejected"]
    /\ Respond(h, 500)
    /\ UNCHANGED <<input, result, catArgs, cat, env, req, idx>>

\* the loop is over: return res.status(200).json({ ok: true })
Finish(h) ==
    /\ running = h /\ pc[h] = "loop" /\ idx[h] = Len(Events(h))
    /\ Respond(h, 200)
    /\ UNCHANGED <<input, result, catArgs, cat, env, req, idx, calls>>

(***************************************************************************)
(* The requests and environments the handler is run on: one request of up   *)
(* to MaxEvents events, or two requests in flight at once.                  *)
(***************************************************************************)
G1 == <<71, 49>>
R1 == <<82, 49>>

TextEvent(sourceType, groupId, roomId, text) ==
    [isNull |-> FALSE, type |-> "message", messageType |-> "text", text |-> text,
     sourceType |-> sourceType, groupId |-> groupId, roomId |-> roomId]

EventPool ==
    { TextEvent("group", G1, <<>>, W_helpKana),
      TextEvent("room", <<>>, R1, <<64, 72, 69, 76, 80>>),          \* @HELP
      TextEvent("group", G1, <<>>, W_zaikoIchiran),
      TextEvent("group", <<71, 50>>, <<>>, <<64>> \o W_zaikoIchiran),
      TextEvent("room", <<>>, R1, <<64>> \o Ex_5NN),
      TextEvent("group", G1, <<>>, Ex_QuoLine80),
      TextEvent("group", G1, <<>>, <<65312>> \o W_hoshiiKanji),      \* full-width @, 欲しい
      TextEvent("group", <<71, 50>>, <<>>, W_konnichiwa),
      TextEvent("group", G1, <<>>, <<36>> \o W_help),                \* $help
      TextEvent("room", <<>>, R1, <<97, 43>> \o W_help),             \* a+help
      TextEvent("group", <<71, 50>>, <<>>, <<42>> \o W_help),                \* *help
      TextEvent("user", <<>>, <<>>, W_helpKana),
      TextEvent("group", <<>>, <<>>, <<64>> \o W_help),
      [isNull |-> FALSE, type |-> "message", messageType |-> "image", text |-> <<>>,
       sourceType |-> "group", groupId |-> G1, roomId |-> <<>>],
      [isNull |-> FALSE, type |-> "follow", messageType |-> "none", text |-> <<>>,
       sourceType |-> "user", groupId |-> <<>>, roomId |-> <<>>],
      [isNull |-> TRUE, type |-> "none", messageType |-> "none", text |-> <<>>,
       sourceType |-> "none", groupId |-> <<>>, roomId |-> <<>>] }

\* The requests without an events array: a POST whose body is undefined,
\* has no events or has events that are no array, and the other methods
PlainRequests ==
    {[method |-> "POST", body |-> [tag |-> k, events |-> <<>>]] :
        k \in {"undefined", "noEvents", "notArray"}}
    \cup {[method |-> m, body |-> [tag |-> k, events |-> <<>>]] :
            m \in {"GET", "OPTIONS", "PUT", "DELETE"}, k \in {"undefined", "noEvents"}}

\* POST with the events l
Post(l) == [method |-> "POST", body |-> [tag |-> "array", events |-> l]]

\* No request: the invocation does not take place
NoRequest == [method |-> "none", body |-> [tag |-> "undefined", events |-> <<>>]]

\* The requests that are in flight two at a time
PairedRequests ==
    { Post(<<TextEvent("group", G1, <<>>, W_helpKana)>>),
      Post(<<TextEvent("group", G1, <<>>, W_helpKana),
             TextEvent("room", <<>>, R1, <<64>> \o Ex_5NN)>>),
      Post(<<TextEvent("room", <<>>, R1, <<64, 72, 69, 76, 80>>),
             TextEvent("user", <<>>, <<>>, W_helpKana),
             TextEvent("group", G1, <<>>, W_zaikoIchiran)>>),
      [method |-> "GET", body |-> [tag |-> "undefined", events |-> <<>>]] }

\* LINE_CHANNEL_ACCESS_TOKEN unset or "T"; ALLOWED_GROUP_IDS unset or
\* "G1, R1"; REQUIRED_PREFIX unset, "@", or one of "$", "a+" and "*", which
\* mean something else as regular expressions than as texts
Envs ==
    [token : {<<>>, <<84>>},
     allowed : {<<>>, G1 \o <<44, 32>> \o R1},
     prefix : {<<>>, <<64>>}]
    \cup [token : {<<>>, <<84>>},
          allowed : {<<>>},
          prefix : {<<36>>, <<97, 43>>, <<42>>}]

Init ==
    /\ \/ /\ \/ \E n \in 0..MaxEvents : \E l \in [1..n -> EventPool] :
                   req = <<Post(l), NoRequest>>
             \/ \E r \in PlainRequests : req = <<r, NoRequest>>
          /\ pc = <<"request", "absent">>
       \/ /\ \E r1, r2 \in PairedRequests : req = <<r1, r2>>
          /\ pc = <<"request", "request">>
    /\ env \in Envs
    /\ idx = <<0, 0>> /\ calls = <<>> /\ sent = <<<<>>, <<>>>>
    /\ running = 0
    /\ input = Idle /\ result = Idle /\ catArgs = Idle /\ cat = Idle

Next ==
    \E h \in Invocations :
        \/ Options(h) \/ Get(h) \/ MethodNotAllowed(h) \/ PostWithoutEvents(h)
        \/ PostBegin(h) \/ EventRaises(h) \/ SkipEvent(h) \/ PrefixRaises(h)
        \/ ComposeWithoutToken(h) \/ Fetch(h) \/ Reply(h) \/ ReplyRejected(h)
        \/ Finish(h)

Spec == Init /\ [][Next]_vars

(***************************************************************************)
(* Properties of parseInventoryRequest, checked under SpecParse.  They are  *)
(* stated on the characters of the normalized text, without the matching    *)
(* operators above.                                                         *)
(***************************************************************************)
RawInput == IF input.tag = "string" THEN input.s ELSE <<>>

NormInput == normalizeText(RawInput)

Returned == pc = "returned" /\ result # Idle

\* The ten trigger words
ClaimTriggerWords ==
    { <<27442, 12375, 12356>>, <<12411, 12375, 12356>>, <<30330, 27880>>,
      <<27880, 25991>>, <<12362, 39000, 12356>>, <<24517, 35201>>,
      <<19979, 12373, 12356>>, <<12367, 12384, 12373, 12356>>,
      <<33267, 24613>>, <<32202, 24613>> }

ContainsTrigger(t) == \E w \in ClaimTriggerWords : Includes(t, w)

AllIn(t, a, b, S) == \A j \in a..b : t[j] \in S

DigitChars == 48..57

AlnumChars == (48..57) \cup (65..90) \cup (97..122)

\* White space: what \s matches
SpaceChars ==
    {9, 10, 11, 12, 13, 32, 160, 5760, 8232, 8233, 8239, 8287, 12288, 65279}
    \cup (8192..8202)

\* The lengths of the strings of digits that start at q
DigitGroups(t, q) ==
    {d \in 1..(Len(t) - q + 1) : AllIn(t, q, q + d - 1, DigitChars)}

\* The positions of a digit reached from a through white space only
SpaceThenDigit(t, a) ==
    {q \in a..Len(t) : t[q] \in DigitChars /\ AllIn(t, a, q - 1, SpaceChars)}

\* The lengths, 2 or more, of the strings of alphanumerics that start at s
CodeGroups(t, s) ==
    {k \in 2..(Len(t) - s + 1) : AllIn(t, s, s + k - 1, AlnumChars)}

\* <<s, k, q, d>>: k >= 2 alphanumerics from s, then white space up to q,
\* then d >= 1 digits from q
GenericShapes(t) ==
    UNION {UNION {UNION {{<<s, k, q, d>> : d \in DigitGroups(t, q)} :
                           q \in SpaceThenDigit(t, s + k)} :
                    k \in CodeGroups(t, s)} :
             s \in 1..Len(t)}

\* The shape a leftmost, greedy search finds: the least s, for it the
\* longest code, and every digit of the run
GenericFound(t) ==
    {x \in GenericShapes(t) :
        /\ \A y \in GenericShapes(t) : x[1] <= y[1]
        /\ \A y \in GenericShapes(t) : y[1] = x[1] => y[2] <= x[2]
        /\ (x[3] + x[4] > Len(t) \/ t[x[3] + x[4]] \notin DigitChars)}

\* The lengths of the product-line names the text spells at s
NameGroups(t, s) ==
    {n \in {5, 7} :
        /\ s + n - 1 <= Len(t)
        /\ \/ SubSeq(t, s, s + n - 1) = <<12463, 12458, 12521, 12452, 12531>>
           \/ toLowerCase(SubSeq(t, s, s + n - 1)) = <<113, 117, 111, 108, 105, 110, 101>>}

\* <<s, n, p, j, q, d>>: the name (n characters from s), white space up to
\* p, j >= 1 digits from p, white space up to q, d >= 1 digits from q
ProductLineShapes(t) ==
    UNION {UNION {UNION {UNION {UNION {{<<s, n, p, j, q, d>> : d \in DigitGroups(t, q)} :
                                         q \in SpaceThenDigit(t, p + j)} :
                                  j \in DigitGroups(t, p)} :
                           p \in SpaceThenDigit(t, s + n)} :
                    n \in NameGroups(t, s)} :
             s \in 1..Len(t)}

\* The shape a leftmost, greedy search finds: the least s, for it the
\* longest first digit group, and every digit of the second run
ProductLineFound(t) ==
    {x \in ProductLineShapes(t) :
        /\ \A y \in ProductLineShapes(t) : x[1] <= y[1]
        /\ \A y \in ProductLineShapes(t) : y[1] = x[1] => y[4] <= x[4]
        /\ (x[5] + x[6] > Len(t) \/ t[x[5] + x[6]] \notin DigitChars)}

\* The value of a string of decimal digits
RECURSIVE Decimal(_)
Decimal(ds) ==
    IF ds = <<>> THEN 0
    ELSE (Head(ds) - 48) * 10 ^ (Len(ds) - 1) + Decimal(Tail(ds))

\* The unit token, if any, that follows the digits and optional white space
\* ending at position e - 1
UnitTokenIsGram(t, e) ==
    \E p \in e..Len(t) :
        /\ AllIn(t, e, p - 1, SpaceChars)
        /\ \/ t[p] \in {103, 71}
           \/ (p + 2 <= Len(t) /\ SubSeq(t, p, p + 2) = <<12464, 12521, 12512>>)

(* C1: parseInventoryRequest returns null whenever the normalized text      *)
(* contains none of the ten trigger words, whatever else it contains; null  *)
(* and undefined arguments included.                                        *)
C1_NoTriggerNull ==
    Returned => (~ContainsTrigger(NormInput) => result = Null)

\* A text with a code, a quantity and a unit but no trigger word was parsed
C1_Witness ==
    /\ Returned
    /\ ~ContainsTrigger(NormInput)
    /\ GenericShapes(NormInput) # {}
    /\ Includes(NormInput, <<26412>>)
    /\ result = Null

\* The decimal value of a string of digits, written as the model writes a
\* Number: an integer below 2^31, its digits from there on
DecimalValue(ds) ==
    IF DigitsLess(StripZeros(ds), TwoTo31) THEN Decimal(StripZeros(ds))
    ELSE [tag |-> "number", decimal |-> StripZeros(ds)]

\* The value of the digits is at most 2^53
UpToTwoTo53(ds) == ~DigitsLess(TwoTo53, StripZeros(ds))

(* C2 as stated: the two patterns are tried in order and the first match    *)
(* wins.  With a trigger word, when the normalized text has the generic     *)
(* shape the result is the generic one (productCode the upper-cased code,   *)
(* quantity the decimal value of the digit group, originalText the raw      *)
(* input), also when the product-line shape is there too; when neither      *)
(* shape is there the result is null.                                       *)
C2_DecimalQuantity ==
    (Returned /\ ContainsTrigger(NormInput)) =>
        /\ GenericShapes(NormInput) # {} =>
              /\ result # Null
              /\ \E x \in GenericFound(NormInput) :
                    /\ result.productCode =
                          toUpperCase(SubSeq(NormInput, x[1], x[1] + x[2] - 1))
                    /\ result.quantity =
                          DecimalValue(SubSeq(NormInput, x[3], x[3] + x[4] - 1))
              /\ result.originalText = RawInput
        /\ (GenericShapes(NormInput) = {} /\ ProductLineShapes(NormInput) = {}) =>
              result = Null

(* C2, amended: as above, the quantity being the decimal value of the digit *)
(* group when that value is at most 2^53 = 9007199254740992; beyond it the  *)
(* quantity is the Number parseInt gives, a double or Infinity, which need  *)
(* not be the decimal value.                                                *)
C2_FirstMatchWins ==
    (Returned /\ ContainsTrigger(NormInput)) =>
        /\ GenericShapes(NormInput) # {} =>
              /\ result # Null
              /\ \E x \in GenericFound(NormInput) :
                    /\ result.productCode =
                          toUpperCase(SubSeq(NormInput, x[1], x[1] + x[2] - 1))
                    /\ IF UpToTwoTo53(SubSeq(NormInput, x[3], x[3] + x[4] - 1))
                       THEN result.quantity =
                               DecimalValue(SubSeq(NormInput, x[3], x[3] + x[4] - 1))
                       ELSE result.quantity.tag \in {"number", "Infinity"}
              /\ result.originalText = RawInput
        /\ (GenericShapes(NormInput) = {} /\ ProductLineShapes(NormInput) = {}) =>
              result = Null

\* A text that both patterns match was parsed, and the generic pattern won
C2_Witness ==
    /\ Returned
    /\ ContainsTrigger(NormInput)
    /\ GenericShapes(NormInput) # {}
    /\ ProductLineShapes(NormInput) # {}
    /\ RawInput # NormInput
    /\ result # Null
    /\ ~Includes(result.productCode, <<95>>)

(* C3: the unit of a result is 本 or g; it is g exactly when the generic    *)
(* pattern matched with a unit token g or グラム, in any letter case, and    *)
(* 本 otherwise: token 本 or 個, no token, or a product-line match.          *)
C3_Unit ==
    (Returned /\ result # Null) =>
        /\ result.unit \in {<<26412>>, <<103>>}
        /\ result.unit = <<103>> <=>
              \E x \in GenericFound(NormInput) : UnitTokenIsGram(NormInput, x[3] + x[4])

\* A request with the unit token in upper case (G) was parsed to unit g
C3_Witness ==
    /\ Returned
    /\ result # Null
    /\ result.unit = <<103>>
    /\ \E x \in GenericFound(NormInput) :
          \E p \in (x[3] + x[4])..Len(NormInput) :
              /\ AllIn(NormInput, x[3] + x[4], p - 1, SpaceChars)
              /\ NormInput[p] = 71

(* C4: the priority of a result, from either pattern, is urgent if and only *)
(* if the normalized text contains 至急 or 緊急 anywhere, and normal         *)
(* otherwise.                                                               *)
C4_Priority ==
    (Returned /\ result # Null) =>
        result.priority =
            IF Includes(NormInput, <<33267, 24613>>) \/ Includes(NormInput, <<32202, 24613>>)
            THEN "urgent" ELSE "normal"

\* An urgent request whose 至急 comes after the product code was parsed
C4_Witness ==
    /\ Returned
    /\ result # Null
    /\ result.priority = "urgent"
    /\ \E x \in GenericFound(NormInput) :
          \E p \in (x[3] + x[4])..Len(NormInput) :
              SubSeq(NormInput, p, p + 1) = <<33267, 24613>>
    /\ ~Includes(SubSeq(NormInput, 1, 2), <<33267, 24613>>)

\* The case of C5: a trigger word, no generic shape, a product-line shape
ProductLineOnly ==
    /\ Returned
    /\ ContainsTrigger(NormInput)
    /\ GenericShapes(NormInput) = {}
    /\ ProductLineShapes(NormInput) # {}

(* C5 as stated: when only the product-line pattern matches, the            *)
(* productCode is the two digit groups concatenated.                        *)
C5_DigitGroupsConcatenated ==
    ProductLineOnly =>
        /\ result # Null
        /\ \E x \in ProductLineShapes(NormInput) :
              result.productCode =
                  SubSeq(NormInput, x[3], x[3] + x[4] - 1)
                    \o SubSeq(NormInput, x[5], x[5] + x[6] - 1)

(* C5, amended: when only the product-line pattern matches, the productCode *)
(* is the matched product-line name, an underscore and the first digit      *)
(* group; the second digit group is the quantity.                           *)
C5_NameAndFirstGroup ==
    ProductLineOnly =>
        /\ result # Null
        /\ \E x \in ProductLineFound(NormInput) :
              /\ result.productCode =
                    SubSeq(NormInput, x[1], x[1] + x[2] - 1) \o <<95>>
                      \o SubSeq(NormInput, x[3], x[3] + x[4] - 1)
              /\ result.quantity =
                    Decimal(SubSeq(NormInput, x[5], x[5] + x[6] - 1))

\* A text only the product-line pattern matches, its two digit groups
\* separated by white space, was parsed
C5_Witness ==
    /\ ProductLineOnly
    /\ result # Null
    /\ \E x \in ProductLineFound(NormInput) : x[5] > x[3] + x[4]

\* The texts of C9: the product-line name, a first group of two or more
\* digits (the whole run), white space, a second digit group
NameCodeQuantity(t) ==
    {x \in ProductLineFound(t) : x[4] >= 2 /\ x[5] > x[3] + x[4]}

(* C9: the documented example クオライン80 3本 お願い parses to productCode  *)
(* クオライン_80, quantity 3, unit 本; and every text with a trigger word    *)
(* made of the product-line name, two or more digits, white space and a     *)
(* second digit group parses to the name with the first group as            *)
(* productCode and the second group as quantity.                            *)
C9_ProductLineExample ==
    Returned =>
        /\ RawInput = Ex_QuoLine80 =>
              /\ result # Null
              /\ result.productCode = N_quolineKana \o <<95, 56, 48>>
              /\ result.quantity = 3
              /\ result.unit = <<26412>>
        /\ (ContainsTrigger(NormInput) /\ NameCodeQuantity(NormInput) # {}) =>
              /\ result # Null
              /\ \E x \in NameCodeQuantity(NormInput) :
                    /\ result.productCode =
                          SubSeq(NormInput, x[1], x[1] + x[2] - 1) \o <<95>>
                            \o SubSeq(NormInput, x[3], x[3] + x[4] - 1)
                    /\ result.quantity =
                          Decimal(SubSeq(NormInput, x[5], x[5] + x[6] - 1))

(***************************************************************************)
(* Properties of detectCategory, checked under SpecCat.                     *)
(***************************************************************************)
\* The arguments as detectCategory reads them: lower-cased, '' for null
CatCode ==
    toLowerCase(IF catArgs.productCode.tag = "string" THEN catArgs.productCode.s ELSE <<>>)

CatText ==
    toLowerCase(IF catArgs.text.tag = "string" THEN catArgs.text.s ELSE <<>>)

\* 1-2 digits followed by a letter at the start, or gr, sb, be, mt or ash
\* anywhere
ClaimColorCode(c) ==
    \/ (Len(c) >= 2 /\ c[1] \in 48..57 /\ c[2] \in 97..122)
    \/ (Len(c) >= 3 /\ c[1] \in 48..57 /\ c[2] \in 48..57 /\ c[3] \in 97..122)
    \/ \E w \in {<<103, 114>>, <<115, 98>>, <<98, 101>>, <<109, 116>>, <<97, 115, 104>>} :
          \E j \in 1..(Len(c) - Len(w) + 1) : \A i \in 1..Len(w) : c[j + i - 1] = w[i]

\* クオライン, quoline, 縮毛 or ストレート
ClaimStraighteningText(t) ==
    \E w \in { <<12463, 12458, 12521, 12452, 12531>>,
               <<113, 117, 111, 108, 105, 110, 101>>,
               <<32302, 27611>>,
               <<12473, 12488, 12524, 12540, 12488>> } : Includes(t, w)

\* トリートメント, treatment, リペア or repair
ClaimTreatmentText(t) ==
    \E w \in { <<12488, 12522, 12540, 12488, 12513, 12531, 12488>>,
               <<116, 114, 101, 97, 116, 109, 101, 110, 116>>,
               <<12522, 12506, 12450>>,
               <<114, 101, 112, 97, 105, 114>> } : Includes(t, w)

ClaimCategory(c, t) ==
    IF ClaimColorCode(c) THEN "color"
    ELSE IF ClaimStraighteningText(t) THEN "straightening"
    ELSE IF ClaimTreatmentText(t) THEN "treatment"
    ELSE "other"

ClaimType(category) ==
    CASE category = "color" -> "color"
      [] category = "straightening" -> "chemical"
      [] category = "treatment" -> "treatment"
      [] OTHER -> "other"

\* The text as it was passed, '' for null
CatRawText == IF catArgs.text.tag = "string" THEN catArgs.text.s ELSE <<>>

\* 1-2 digits followed by a letter of any alphabet at the start, or gr, sb,
\* be, mt or ash anywhere
ClaimColorCodeAnyLetter(c) ==
    \/ ClaimColorCode(c)
    \/ \E n \in 1..2 :
          /\ Len(c) > n
          /\ \A j \in 1..n : c[j] \in 48..57
          /\ c[n + 1] > 127 /\ InRanges(c[n + 1], CasedRanges)

(* C6, as the specification states it: the category is color when the       *)
(* lower-cased productCode starts with 1-2 digits followed by a letter or   *)
(* contains gr, sb, be, mt or ash; otherwise straightening when the text,   *)
(* as passed, contains クオライン, quoline, 縮毛 or ストレート; otherwise     *)
(* treatment when it contains トリートメント, treatment, リペア or repair;    *)
(* otherwise other.  The code gives treatment for the text REPAIR and       *)
(* other for the code 5Σ.                                                    *)
C6_CategoryAsWritten ==
    (pc = "returned" /\ cat # Idle) =>
        /\ cat.category \in {"color", "straightening", "treatment", "other"}
        /\ cat.category =
              IF ClaimColorCodeAnyLetter(CatCode) THEN "color"
              ELSE IF ClaimStraighteningText(CatRawText) THEN "straightening"
              ELSE IF ClaimTreatmentText(CatRawText) THEN "treatment"
              ELSE "other"
        /\ cat.type = ClaimType(cat.category)

(* C6: detectCategory returns one of color, straightening, treatment,       *)
(* other, the first that applies in this order: color when the lower-cased  *)
(* productCode starts with 1-2 digits and a letter from a to z or contains  *)
(* gr, sb, be, mt or ash, whatever the text; straightening when the         *)
(* lower-cased text contains クオライン, quoline, 縮毛 or ストレート;         *)
(* treatment when the lower-cased text contains トリートメント, treatment,    *)
(* リペア or repair; otherwise other.  The type is the one of the category.  *)
C6_Category ==
    (pc = "returned" /\ cat # Idle) =>
        /\ cat.category \in {"color", "straightening", "treatment", "other"}
        /\ cat.category = ClaimCategory(CatCode, CatText)
        /\ cat.type = ClaimType(cat.category)

\* A code that holds gr only once lower-cased, and starts with no digit, was
\* classified as a colour while the lower-cased text names a straightening
\* product
C6_Witness ==
    /\ pc = "returned" /\ cat # Idle
    /\ catArgs.productCode.tag = "string"
    /\ Includes(CatCode, <<103, 114>>)
    /\ ~Includes(catArgs.productCode.s, <<103, 114>>)
    /\ ~ColorPrefix(CatCode)
    /\ ClaimStraighteningText(CatText)
    /\ cat.category = "color"

(***************************************************************************)
(* Properties of the handler, checked under Spec.  They are stated for     *)
(* each invocation: its request, its answer and its own reply calls.       *)
(***************************************************************************)
IsPostWithEvents(h) == req[h].method = "POST" /\ req[h].body.tag = "array"

\* The reply calls of invocation h, as positions of the log
CallsOf(h) == {j \in 1..Len(calls) : calls[j].handler = h}

\* Those of them issued for the event at position p
CallsFor(h, p) == {j \in CallsOf(h) : calls[j].event = p}

\* The conditions under which an event is replied to
ClaimEligible(ev) ==
    /\ ~ev.isNull
    /\ ev.type = "message" /\ ev.messageType = "text"
    /\ ev.sourceType \in {"group", "room"}
    /\ \/ Len(ALLOWED_GROUP_IDS(env)) = 0
       \/ \E j \in 1..Len(ALLOWED_GROUP_IDS(env)) :
             ALLOWED_GROUP_IDS(env)[j] = (IF ev.groupId # <<>> THEN ev.groupId ELSE ev.roomId)
    /\ \/ env.prefix = <<>>
       \/ StartsWith(normalizeText(ev.text), normalizeText(env.prefix))
    /\ env.token # <<>>

\* The event cannot be read, or it passes the guards and the prefix is no
\* regular expression
EventThrows(ev) ==
    \/ ev.isNull
    \/ /\ ev.type = "message" /\ ev.messageType = "text"
       /\ ev.sourceType \in {"group", "room"}
       /\ GroupAllowed(env, ev)
       /\ env.prefix # <<>>
       /\ StartsWith(normalizeText(ev.text), normalizeText(env.prefix))
       /\ RegExp(<<94>> \o env.prefix).tag = "SyntaxError"

\* An exception was raised while the POST was processed: a fetch rejected,
\* or the loop stopped at an event that throws
ExceptionRaised(h) ==
    /\ IsPostWithEvents(h)
    /\ \/ \E j \in CallsOf(h) : calls[j].outcome = "rejected"
       \/ /\ pc[h] = "done" /\ idx[h] < Len(Events(h))
          /\ EventThrows(Events(h)[idx[h] + 1])

ExpectedStatus(h) ==
    IF req[h].method \notin {"GET", "POST", "OPTIONS"} THEN 405
    ELSE IF ExceptionRaised(h) THEN 500
    ELSE 200

(* C7: every request is answered with exactly one HTTP status: 405 when the *)
(* method is none of GET, POST, OPTIONS, 500 when an exception is raised    *)
(* while a POST is processed, 200 otherwise; a POST without an events array *)
(* issues no reply call.  No status is written before the handler is done.  *)
C7_Status ==
    \A h \in Invocations :
        /\ pc[h] # "done" => sent[h] = <<>>
        /\ pc[h] = "done" => sent[h] = <<ExpectedStatus(h)>>
        /\ (req[h].method = "POST" /\ req[h].body.tag # "array") => CallsOf(h) = {}

\* A POST with events, all of them skipped, was answered 200
C7_Witness ==
    /\ pc[1] = "done"
    /\ IsPostWithEvents(1) /\ Len(Events(1)) > 0
    /\ \A p \in 1..Len(Events(1)) : ~Events(1)[p].isNull /\ IsTextMessage(Events(1)[p])
    /\ calls = <<>>
    /\ env.token # <<>>
    /\ sent[1] = <<200>>

ReplyKinds ==
    {"help", "inventory", "inventory_failure", "confirmation", "format_error", "greeting"}

(* C8: in a POST, every event the loop has gone through without an          *)
(* exception has exactly one reply call if it is a text message from a      *)
(* group or room that the allow-list and the prefix admit and the token is  *)
(* set, and none otherwise; the calls follow the order of the events; each  *)
(* message is help, the inventory list or its failure text, a confirmation, *)
(* format-not-recognized or the greeting; a POST answered 200 has gone      *)
(* through all its events.                                                  *)
C8_ReplyCalls ==
    \A h \in Invocations :
        /\ ~IsPostWithEvents(h) => CallsOf(h) = {}
        /\ IsPostWithEvents(h) =>
              /\ \A p \in 1..idx[h] :
                    Cardinality(CallsFor(h, p)) =
                        IF ClaimEligible(Events(h)[p]) THEN 1 ELSE 0
              /\ \A j, k \in CallsOf(h) : j < k => calls[j].event < calls[k].event
              /\ \A j \in CallsOf(h) :
                    /\ calls[j].message.kind \in ReplyKinds
                    /\ calls[j].event <= Len(Events(h))
                    /\ ClaimEligible(Events(h)[calls[j].event])
              /\ (pc[h] = "done" /\ sent[h] = <<200>>) => idx[h] = Len(Events(h))

\* A POST answered 200 whose first event, a 1:1 text message, got no reply
\* and whose second event, from a room, with the prefix, got one
C8_Witness ==
    /\ pc[1] = "done" /\ sent[1] = <<200>>
    /\ IsPostWithEvents(1) /\ Len(Events(1)) = 2
    /\ IsTextMessage(Events(1)[1]) /\ Events(1)[1].sourceType = "user"
    /\ Events(1)[2].sourceType = "room"
    /\ env.prefix # <<>> /\ env.allowed # <<>>
    /\ Len(calls) = 1 /\ calls[1].event = 2
    /\ calls[1].outcome = "resolved"
    /\ calls[1].message.kind = "confirmation"

(* C10: a reply call that raises makes the handler answer 500 and stop: it  *)
(* is the last call of the request, the loop goes no further, and the       *)
(* earlier events keep the calls they got.  A reply call that completes     *)
(* with a non-success status does not raise: the loop goes on, and the      *)
(* answer is 200 unless something else raises.                              *)
C10_ReplyFailure ==
    \A h \in Invocations :
        IsPostWithEvents(h) =>
            /\ \A j \in CallsOf(h) :
                  calls[j].outcome = "rejected" =>
                      /\ pc[h] = "done" /\ sent[h] = <<500>>
                      /\ \A k \in CallsOf(h) : k <= j
                      /\ idx[h] = calls[j].event - 1
                      /\ \A p \in 1..idx[h] :
                            ClaimEligible(Events(h)[p]) =>
                                \E k \in CallsFor(h, p) : calls[k].outcome = "resolved"
            /\ \A j \in CallsOf(h) :
                  (calls[j].outcome = "resolved" /\ calls[j].status = 400) =>
                      /\ idx[h] >= calls[j].event
                      /\ pc[h] = "done" =>
                            \/ sent[h] = <<200>> /\ idx[h] = Len(Events(h))
                            \/ /\ sent[h] = <<500>>
                               /\ \/ \E k \in CallsOf(h) : calls[k].outcome = "rejected"
                                  \/ Events(h)[idx[h] + 1].isNull

\* A reply with a non-success status was followed by a reply that raised:
\* the first call stands and the answer is 500
C10_Witness ==
    /\ pc[1] = "done" /\ sent[1] = <<500>>
    /\ pc[2] = "absent"
    /\ Len(calls) = 2
    /\ calls[1].outcome = "resolved" /\ calls[1].status = 400
    /\ calls[2].outcome = "rejected"

=============================================================================
